---- MODULE Spec2Model ----
(***************************************************************************)
(* A model of the prompt store of chatgpt-prompt-bank: the AwsVectorStore  *)
(* class of server/awsVectorStore.ts over an S3 Vectors bucket and a       *)
(* Bedrock embedding model.                                                *)
(*                                                                         *)
(* Texts, titles and user identifiers are sequences of one-character       *)
(* strings, so that the normalisations of the code (whitespace collapse,   *)
(* trim, lower-casing, character replacement) are computed, not assumed.   *)
(* A SHA-256 digest is the symbolic term [sha256 |-> x, hexlen |-> n]:     *)
(* "the first n hex digits of the digest of x"; two digests are equal      *)
(* exactly when their preimages and lengths are (no collisions).  An       *)
(* embedding is the symbolic term [float32 |-> t]: "the vector the model   *)
(* returns for t".                                                         *)
(***************************************************************************)
EXTENDS Integers, Sequences, FiniteSets, TLC

(***************************************************************************)
(* Characters and strings                                                  *)
(***************************************************************************)
UpperCase ==
    << "A", "B", "C", "D", "E", "F", "G", "H", "I", "J", "K", "L", "M",
       "N", "O", "P", "Q", "R", "S", "T", "U", "V", "W", "X", "Y", "Z" >>

LowerCase ==
    << "a", "b", "c", "d", "e", "f", "g", "h", "i", "j", "k", "l", "m",
       "n", "o", "p", "q", "r", "s", "t", "u", "v", "w", "x", "y", "z" >>

Digits == { "0", "1", "2", "3", "4", "5", "6", "7", "8", "9" }

\* The characters the regular expression class \s matches (those used here).
WhiteSpace == { " ", "\t", "\n" }

\* A function written out as a table of its values.
Table(f) == f @@ << >>

UpperCaseSet == { UpperCase[i] : i \in 1..Len(UpperCase) }

LowerCaseOf ==
    Table([c \in UpperCaseSet |->
              LowerCase[CHOOSE i \in 1..Len(UpperCase) : UpperCase[i] = c]])

\* String.prototype.toLowerCase, one character.
toLowerCaseChar(c) == IF c \in UpperCaseSet THEN LowerCaseOf[c] ELSE c

\* String.prototype.toLowerCase.
toLowerCase(s) == [i \in 1..Len(s) |-> toLowerCaseChar(s[i])]

\* The value of an expression, computed once (S: the set holding it).
Only(S) == CHOOSE x \in S : TRUE

\* s.replace(/^C+/, "")  (t: the value of s)
stripLeading(s, C) ==
    Only({ IF t = << >> \/ t[1] \notin C THEN t
           ELSE SubSeq(t, 1 + Cardinality({ i \in 1..Len(t) :
                                              \A j \in 1..i : t[j] \in C }),
                       Len(t)) : t \in { s } })

\* s.replace(/C+$/, "")
stripTrailing(s, C) ==
    Only({ IF t = << >> \/ t[Len(t)] \notin C THEN t
           ELSE SubSeq(t, 1, Len(t) - Cardinality({ i \in 1..Len(t) :
                                     \A j \in i..Len(t) : t[j] \in C })) :
           t \in { s } })

\* The characters that s.replace(/C+/g, r) puts for those of s: r for the
\* first character of a run of characters of C, "" for the others of it.
replacedRuns(s, C, r) ==
    [i \in 1..Len(s) |->
        IF s[i] \notin C THEN s[i]
        ELSE IF i = 1 \/ s[i - 1] \notin C THEN r ELSE ""]

NotEmpty(c) == c # ""

\* s.replace(/C+/g, r): every maximal run of characters of C becomes r.
replaceRuns(s, C, r) ==
    Only({ SelectSeq(replacedRuns(t, C, r), NotEmpty) : t \in { s } })

\* String.prototype.trim, trimEnd.
trim(s) == stripTrailing(stripLeading(s, WhiteSpace), WhiteSpace)
trimEnd(s) == stripTrailing(s, WhiteSpace)

\* String.prototype.slice(0, n).
slice0(s, n) == SubSeq(s, 1, IF n < Len(s) THEN n ELSE Len(s))

\* createHash("sha256").update(x).digest("hex").slice(0, n), as a term.
Sha256Hex(x, n) == [sha256 |-> x, hexlen |-> n]

\* The absence of a digest in a name.
NoHash == [sha256 |-> << >>, hexlen |-> 0]

(***************************************************************************)
(* Key derivation                                                          *)
(***************************************************************************)
\* A normalisation that forgets the lower-casing.
normalizePromptForKeyCaseSensitive(text) ==
    trim(replaceRuns(text, WhiteSpace, " "))

\* A normalisation that forgets to collapse the runs of whitespace.
normalizePromptForKeyNoCollapse(text) == toLowerCase(trim(text))

\* text.replace(/\s+/g, " ").trim().toLowerCase()
normalizePromptForKey(text) ==
    toLowerCase(trim(replaceRuns(text, WhiteSpace, " ")))

\* `p-${hash}`
promptKeyFromText(text) ==
    [prefix |-> "p-", hash |-> Sha256Hex(normalizePromptForKey(text), 32)]

(***************************************************************************)
(* Index names                                                             *)
(***************************************************************************)
MaxIndexNameLen == 63

IndexNameChars ==
    { LowerCase[i] : i \in 1..Len(LowerCase) } \cup Digits \cup { "-" }

\* An index name is the string `chars` followed by the digest `hash` (if any).
nameLength(n) == Len(n.chars) + n.hash.hexlen

userIndexName(userSub) ==
    LET lower == toLowerCase(userSub)
        replaced == [i \in 1..Len(lower) |->
                        IF lower[i] \in IndexNameChars THEN lower[i] ELSE "-"]
        cleaned == stripTrailing(
                       stripLeading(replaceRuns(replaced, { "-" }, "-"), { "-" }),
                       { "-" })
        hash == Sha256Hex(userSub, 16)
        base == IF Len(cleaned) > 0
                THEN [chars |-> << "u", "-" >> \o cleaned, hash |-> NoHash]
                ELSE [chars |-> << "u", "-" >>, hash |-> hash]
        \* Reserve space for "-<hash>"
        maxPrefix == MaxIndexNameLen - (1 + hash.hexlen)
        prefix == stripTrailing(slice0(base.chars, maxPrefix), { "-" })
    IN  IF nameLength(base) <= MaxIndexNameLen
        THEN base
        ELSE [chars |-> prefix \o << "-" >>, hash |-> hash]

(***************************************************************************)
(* Derived metadata                                                        *)
(***************************************************************************)
PreviewMaxLen == 160

\* The marker as the source file spells it: three characters.
Ellipsis == << "U+00E2", "U+20AC", "U+00A6" >>

previewText(text, maxLen) ==
    LET normalized == trim(replaceRuns(text, WhiteSpace, " "))
    IN  IF Len(normalized) <= maxLen
        THEN normalized
        ELSE trimEnd(slice0(normalized, maxLen - 1)) \o Ellipsis

\* text.trim().split(/\s+/).filter(Boolean).length
wordCount(text) ==
    LET normalized == trim(text)
    IN  IF normalized = << >> THEN 0
        ELSE Cardinality({ i \in 1..Len(normalized) :
                 /\ normalized[i] \notin WhiteSpace
                 /\ (i = 1 \/ normalized[i - 1] \in WhiteSpace) })

(***************************************************************************)
(* Inputs                                                                  *)
(***************************************************************************)
\* User identifiers (the `sub` of a token).
Users == { << "A" >>, << "a" >>, << "|" >> }

\* Prompt texts: a blank one, two that differ in case and whitespace only,
\* and a different one.
Blank == << " ", "\n" >>
Same == << "A", " ", "b" >>
SameSpaced == << "a", " ", " ", "b" >>
Other == << "b" >>

Texts == { Blank, Same, SameSpaced, Other }

\* The text lists of a batch save: empty, whitespace only, with and without
\* repeated texts.
Batches ==
    { << >>,
      << Blank, << " " >> >>,
      << Other >>,
      << Same, SameSpaced, Other >>,
      << SameSpaced, Other, Same >>,
      << Other, Blank, Other >> }

NoExtra == [title |-> << >>, tags |-> << >>, source |-> << >>]

\* The optional title, tags and source of a call (empty: not supplied).
Extras ==
    { NoExtra,
      [title |-> << "T", " " >>, tags |-> << "x" >>, source |-> << "w" >>] }

\* The number of store calls in a run.
MaxCalls == 2

\* userIndexName and promptKeyFromText on the inputs of the model.
IndexNameOf == Table([u \in Users \cup { << >> } |-> userIndexName(u)])

BatchTexts == UNION { { b[i] : i \in 1..Len(b) } : b \in Batches }

KeyOf == Table([t \in Texts \cup BatchTexts \cup { << >> } |-> promptKeyFromText(t)])

IndexNames == { IndexNameOf[u] : u \in Users }

\* Keys a caller may pass to update and delete.
Keys == { KeyOf[t] : t \in Texts }

\* The length of the vectors the embedding model returns.
ModelDimension == "dim"

\* The one external call of an operation that fails, if any.  "GetIndex" is
\* a failure with a name other than not-found; "GetIndexUnnamed" is a
\* failure that carries no name; "Probe" is the embedding of the dimension
\* probe, "Embed" the embedding of a prompt or query text.
IndexFaults == { "none", "GetIndex", "GetIndexUnnamed" }
EnsureFaults == IndexFaults \cup { "Probe", "CreateIndex" }

(***************************************************************************)
(* State                                                                   *)
(***************************************************************************)
VARIABLES
    indexes,                    \* the bucket: index name -> [exists, dimension]
    vectors,                    \* index name -> the set of stored vectors
    embeddingDimensionPromise,  \* "null", "rejected" or the resolved dimension
    clock,                      \* the time of the latest call
    calls,                      \* the number of calls made
    lastCall,                   \* the latest call: its inputs and what it did
    toolCall,                   \* the latest tools/call request and its result
    original,                   \* a text
    variant,                    \* the text in another spacing and letter case
    applied,                    \* the function applied to them and its values
    storesBySession,            \* demo: sessionId -> [prompts]
    demoSessions,               \* demo: the sessionIds of the session map
    demoClock,                  \* demo: the time of the latest request
    demoCall,                   \* demo: the latest tools/call and its result
    sessions,                   \* the session map: sessionId -> authContext
    transports,                 \* sessionId -> the state of its SSE transport
    posts,                      \* the POSTs received: sessionId and response
    dispatched,                 \* the POSTs handed to a session's transport
    updating,                   \* the updatePrompt calls in progress
    ensuring,                   \* the ensureUserIndex calls in progress
    issued,                     \* the commands they sent, in order
    widget,                     \* the state of the mounted PromptSuggestion
    props,                      \* the props the host rendered it with
    synced,                     \* what the re-sync effect last ran with
    inFlight,                   \* the tool calls the widget is waiting for
    settled                     \* the tool call that has just settled

storeVars ==
    << indexes, vectors, embeddingDimensionPromise, clock, calls, lastCall >>

textVars == << original, variant, applied >>

demoVars == << storesBySession, demoSessions, demoClock, demoCall >>

sessionVars == << sessions, transports, posts, dispatched >>

ensureVars == << ensuring, issued >>

widgetVars == << widget, props, synced, inFlight, settled >>

vars ==
    << storeVars, toolCall, textVars, demoVars, sessionVars, updating, ensureVars,
       widgetVars >>

\* What the direct calls and the tools, the text functions, the demo server
\* and the session map leave alone.
outsideStore ==
    << textVars, demoVars, sessionVars, updating, ensureVars, widgetVars >>
outsideTexts ==
    << storeVars, toolCall, demoVars, sessionVars, updating, ensureVars, widgetVars >>
outsideDemo ==
    << storeVars, toolCall, textVars, sessionVars, updating, ensureVars, widgetVars >>
outsideSessions ==
    << storeVars, toolCall, textVars, demoVars, updating, ensureVars, widgetVars >>
outsideRace ==
    << toolCall, textVars, demoVars, sessionVars, ensureVars, widgetVars >>
outsideWidget ==
    << storeVars, toolCall, textVars, demoVars, sessionVars, updating, ensureVars >>
outsideEnsure ==
    << toolCall, textVars, demoVars, sessionVars, updating, widgetVars >>

NoIndex == [exists |-> FALSE, dimension |-> "none"]

NoCall ==
    [op |-> "none", userSub |-> << >>, indexName |-> IndexNameOf[<< >>],
     key |-> KeyOf[<< >>], text |-> << >>, extra |-> NoExtra,
     prompts |-> << >>, threw |-> FALSE, error |-> "", sent |-> << >>,
     now |-> 0, existed |-> FALSE, had |-> FALSE, saved |-> << >>,
     deleted |-> FALSE, returned |-> { }, touched |-> { }, opts |-> { },
     topK |-> 0]

\* No tools/call request was handled.
NoToolCall == [tool |-> "none"]

\* No function was applied.
NotApplied == [fn |-> "none"]

\* A store that no call has reached.
StoreInit ==
    /\ indexes = [n \in IndexNames |-> NoIndex]
    /\ vectors = [n \in IndexNames |-> { }]
    /\ embeddingDimensionPromise = "null"
    /\ clock = 0
    /\ calls = 0
    /\ lastCall = NoCall
    /\ toolCall = NoToolCall

NoTexts ==
    /\ original = << >>
    /\ variant = << >>
    /\ applied = NotApplied

\* No tools/call request reached the demo server.
NoDemoCall == [tool |-> "none"]

\* A demo server that no client has reached.
DemoInit ==
    /\ storesBySession = << >>
    /\ demoSessions = { }
    /\ demoClock = 0
    /\ demoCall = NoDemoCall

\* A session map that no client has reached.
SessionInit ==
    /\ sessions = << >>
    /\ transports = << >>
    /\ posts = << >>
    /\ dispatched = { }

\* No updatePrompt call is in progress.
NoUpdates == updating = << >>

\* No ensureUserIndex call is in progress.
NoEnsures == ensuring = << >> /\ issued = << >>

\* No widget is mounted.
NoWidget ==
    /\ widget = << >>
    /\ props = << >>
    /\ synced = << >>
    /\ inFlight = { }
    /\ settled = << >>

Init ==
    /\ StoreInit
    /\ NoTexts
    /\ DemoInit
    /\ SessionInit
    /\ NoUpdates
    /\ NoEnsures
    /\ NoWidget

(***************************************************************************)
(* The services                                                            *)
(***************************************************************************)
\* InvokeModel: the embedding of a text.
embedText(text) == [float32 |-> text]

KeysOf(vs) == { v.key : v \in vs }

\* A write that leaves the stored vector of a key in place.
PutVectorsUnlessStored(stored, records) ==
    stored \cup { r \in records : r.key \notin KeysOf(stored) }

\* PutVectors: a vector replaces the stored vector of the same key.
PutVectors(stored, records) ==
    { v \in stored : v.key \notin KeysOf(records) } \cup records

\* DeleteVectors: deleting an absent key is no error.
DeleteVectors(stored, keys) == { v \in stored : v.key \notin keys }

\* GetVectors with returnMetadata.
GetVectors(stored, keys) == { v \in stored : v.key \in keys }

\* What a stored vector carries beside the service's record: the user whose
\* call wrote it and the time its key came into existence (history only).
StoredVector(key, data, metadata, writer, stored) ==
    [key |-> key, data |-> data, metadata |-> metadata, writer |-> writer,
     born |-> IF \E v \in stored : v.key = key
              THEN (CHOOSE v \in stored : v.key = key).born
              ELSE metadata.updatedAt]

(***************************************************************************)
(* AwsVectorStore                                                          *)
(***************************************************************************)
getEmbeddingDimension(promise, fault) ==
    IF promise = "null"
    THEN [promise |-> IF fault = "Probe" THEN "rejected" ELSE ModelDimension,
          sent |-> << "InvokeModel" >>]
    ELSE [promise |-> promise, sent |-> << >>]

ensureUserIndex(userSub, fault) ==
    LET indexName == IndexNameOf[userSub]
        exists == indexes[indexName].exists
        probe == getEmbeddingDimension(embeddingDimensionPromise, fault)
        got == [threw |-> FALSE, error |-> "", indexName |-> indexName,
                indexes |-> indexes, promise |-> embeddingDimensionPromise,
                sent |-> << "GetIndex" >>]
        probed == [got EXCEPT !.promise = probe.promise,
                              !.sent = got.sent \o probe.sent]
    IN  IF fault = "GetIndex"
        THEN [got EXCEPT !.threw = TRUE, !.error = "AccessDenied"]
        ELSE IF exists /\ fault # "GetIndexUnnamed"
        THEN got
        ELSE IF probe.promise = "rejected"
        THEN [probed EXCEPT !.threw = TRUE, !.error = "EmbeddingError"]
        ELSE IF fault = "CreateIndex" \/ exists
        THEN [probed EXCEPT
                 !.threw = TRUE,
                 !.error = IF exists THEN "ConflictException" ELSE "ServiceError",
                 !.sent = probed.sent \o << "CreateIndex" >>]
        ELSE [probed EXCEPT
                 !.indexes = [indexes EXCEPT ![indexName] =
                                 [exists |-> TRUE, dimension |-> probe.promise]],
                 !.sent = probed.sent \o << "CreateIndex" >>]

\* A probe that takes the index to exist whatever GetIndex answers.
doesIndexExistAlways(indexName, fault) ==
    [threw |-> FALSE, error |-> "", exists |-> TRUE, indexes |-> indexes,
     sent |-> << "GetIndex" >>]

\* A probe that takes every failure of GetIndex for "not found".
doesIndexExistCatchAll(indexName, fault) ==
    [threw |-> FALSE, error |-> "",
     exists |-> indexes[indexName].exists
                /\ fault \notin { "GetIndex", "GetIndexUnnamed" },
     indexes |-> indexes, sent |-> << "GetIndex" >>]

\* A probe that creates the index it does not find.
doesIndexExistCreating(indexName, fault) ==
    [threw |-> fault \in { "GetIndex", "GetIndexUnnamed" },
     error |-> IF fault \in { "GetIndex", "GetIndexUnnamed" }
               THEN "AccessDenied" ELSE "",
     exists |-> fault \notin { "GetIndex", "GetIndexUnnamed" },
     indexes |-> IF fault \in { "GetIndex", "GetIndexUnnamed" }
                    \/ indexes[indexName].exists
                 THEN indexes
                 ELSE [indexes EXCEPT ![indexName] =
                          [exists |-> TRUE, dimension |-> ModelDimension]],
     sent |-> IF fault \in { "GetIndex", "GetIndexUnnamed" }
                 \/ indexes[indexName].exists
              THEN << "GetIndex" >> ELSE << "GetIndex", "CreateIndex" >>]

\* GetIndex answers; a not-found failure is `false`, any other failure (also
\* one without a name) is thrown on.
doesIndexExist(indexName, fault) ==
    IF fault \in { "GetIndex", "GetIndexUnnamed" }
    THEN [threw |-> TRUE,
          error |-> IF fault = "GetIndex" THEN "AccessDenied" ELSE "UnnamedError",
          exists |-> FALSE,
          indexes |-> indexes, sent |-> << "GetIndex" >>]
    ELSE [threw |-> FALSE, error |-> "", exists |-> indexes[indexName].exists,
          indexes |-> indexes, sent |-> << "GetIndex" >>]

NoUpload == [kind |-> "none", n |-> 0]

\* The metadata object the three writers build.
PromptMetadata(text, title, tags, source, upload, chunkIndex, chunkCount, createdAt, updatedAt) ==
    [schemaVersion |-> 1, modelId |-> "bedrockEmbeddingModelId",
     text |-> text, preview |-> previewText(text, PreviewMaxLen),
     title |-> title, tags |-> tags, source |-> source,
     uploadId |-> upload, chunkIndex |-> chunkIndex, chunkCount |-> chunkCount,
     createdAt |-> createdAt, updatedAt |-> updatedAt,
     length |-> Len(text), wordCount |-> wordCount(text)]

\* What a call did: the state it leaves and what it returns.
Outcome(e) ==
    [threw |-> e.threw, error |-> e.error, indexName |-> e.indexName,
     indexes |-> e.indexes, promise |-> e.promise, vectors |-> vectors,
     sent |-> e.sent, saved |-> << >>, deleted |-> FALSE, returned |-> { },
     touched |-> { }, opts |-> { }, topK |-> 0]

\* An outcome that stops at a failed external call.
Throw(o, command, error) ==
    [o EXCEPT !.threw = TRUE, !.error = error, !.sent = o.sent \o command]

\* An operation that looked the index up without creating it.
Looked(indexName, d) ==
    [threw |-> d.threw, error |-> d.error, indexName |-> indexName,
     indexes |-> d.indexes, promise |-> embeddingDimensionPromise,
     sent |-> d.sent]

Writers(vs) == { v.writer : v \in vs }

upsertPrompt(userSub, promptText, extra, now, fault) ==
    LET e == ensureUserIndex(userSub, fault)
        o == Outcome(e)
        id == KeyOf[promptText]
        vector == embedText(promptText)
        metadata == PromptMetadata(promptText, trim(extra.title), extra.tags,
                                   trim(extra.source), NoUpload, -1, -1, now, now)
        stored == vectors[e.indexName]
        record == StoredVector(id, vector, metadata, userSub, stored)
    IN  IF e.threw THEN o
        ELSE IF fault = "Embed"
        THEN Throw(o, << "InvokeModel" >>, "EmbeddingError")
        ELSE IF fault = "PutVectors"
        THEN Throw(o, << "InvokeModel", "PutVectors" >>, "ServiceError")
        ELSE [o EXCEPT
                 !.sent = o.sent \o << "InvokeModel", "PutVectors" >>,
                 !.vectors = [vectors EXCEPT ![e.indexName] =
                                 PutVectors(stored, { record })],
                 !.saved = << id >>,
                 !.touched = Writers(GetVectors(stored, { id }))]

\* A loop that keeps every prompt.
uniquePromptsKeepAll(prompts, seenKeys) ==
    [i \in 1..Len(prompts) |->
        [key |-> KeyOf[prompts[i].text], text |-> prompts[i].text,
         title |-> prompts[i].title, tags |-> prompts[i].tags,
         source |-> prompts[i].source]]

\* The first prompt of every key, in input order.
RECURSIVE uniquePromptsOf(_, _)
uniquePromptsOf(prompts, seenKeys) ==
    IF prompts = << >> THEN << >>
    ELSE LET key == KeyOf[prompts[1].text]
         IN  IF key \in seenKeys
             THEN uniquePromptsOf(Tail(prompts), seenKeys)
             ELSE << [key |-> key, text |-> prompts[1].text,
                      title |-> prompts[1].title, tags |-> prompts[1].tags,
                      source |-> prompts[1].source] >>
                  \o uniquePromptsOf(Tail(prompts), seenKeys \cup { key })

Repeat(command, n) == [i \in 1..n |-> command]

\* failAt: the prompt whose embedding fails when fault = "Embed".
\* A batch save that writes each record as soon as it is embedded.
upsertPromptsEach(userSub, prompts, uploadId, now, fault, failAt) ==
    LET e == ensureUserIndex(userSub, fault)
        o == Outcome(e)
        uniquePrompts == uniquePromptsOf(prompts, { })
        chunkCount == Len(uniquePrompts)
        stored == vectors[e.indexName]
        done == IF fault = "Embed" /\ failAt \in 1..chunkCount
                THEN failAt - 1 ELSE chunkCount
        records ==
            { StoredVector(uniquePrompts[i].key, embedText(uniquePrompts[i].text),
                  PromptMetadata(uniquePrompts[i].text, << >>, << >>, << >>,
                                 uploadId, i - 1, chunkCount, now, now),
                  userSub, stored) : i \in 1..done }
    IN  IF e.threw THEN o
        ELSE [o EXCEPT
                 !.threw = done < chunkCount,
                 !.error = IF done < chunkCount THEN "EmbeddingError" ELSE "",
                 !.sent = o.sent \o Repeat("InvokeModel", IF done < chunkCount THEN done + 1 ELSE done)
                             \o Repeat("PutVectors", done),
                 !.vectors = [vectors EXCEPT ![e.indexName] =
                                 PutVectors(stored, records)]]

upsertPrompts(userSub, prompts, uploadId, now, fault, failAt) ==
    LET e == ensureUserIndex(userSub, fault)
        o == Outcome(e)
        uniquePrompts == uniquePromptsOf(prompts, { })
        chunkCount == Len(uniquePrompts)
        stored == vectors[e.indexName]
        record(i) ==
            LET p == uniquePrompts[i]
            IN  StoredVector(p.key, embedText(p.text),
                    PromptMetadata(p.text, trim(p.title), p.tags, trim(p.source),
                                   uploadId, i - 1, chunkCount, now, now),
                    userSub, stored)
        records == { record(i) : i \in 1..chunkCount }
        embedded == Repeat("InvokeModel", chunkCount)
    IN  IF e.threw THEN o
        ELSE IF fault = "Embed" /\ failAt \in 1..chunkCount
        THEN Throw(o, Repeat("InvokeModel", failAt), "EmbeddingError")
        ELSE IF chunkCount = 0
        THEN o
        ELSE IF fault = "PutVectors"
        THEN Throw(o, embedded \o << "PutVectors" >>, "ServiceError")
        ELSE [o EXCEPT
                 !.sent = o.sent \o embedded \o << "PutVectors" >>,
                 !.vectors = [vectors EXCEPT ![e.indexName] =
                                 PutVectors(stored, records)],
                 !.saved = [i \in 1..chunkCount |-> uniquePrompts[i].key],
                 !.touched = Writers(GetVectors(stored, KeysOf(records)))]

deletePrompt(userSub, key, fault) ==
    LET indexName == IndexNameOf[userSub]
        d == doesIndexExist(indexName, fault)
        o == Outcome(Looked(indexName, d))
        stored == vectors[indexName]
    IN  IF d.threw THEN o
        ELSE IF ~d.exists THEN o
        ELSE IF fault = "DeleteVectors"
        THEN Throw(o, << "DeleteVectors" >>, "ServiceError")
        ELSE [o EXCEPT
                 !.sent = o.sent \o << "DeleteVectors" >>,
                 !.vectors = [vectors EXCEPT ![indexName] =
                                 DeleteVectors(stored, { key })],
                 !.deleted = TRUE,
                 !.touched = Writers(GetVectors(stored, { key }))]

\* `a || b` on strings and arrays whose empty value is falsy or undefined.
OrElse(a, b) == IF a # << >> THEN a ELSE b

\* An update that stamps createdAt anew.
createdAtOnUpdateNow(existingCreatedAt, now) == now

\* existingMetadata.createdAt || now (0: no createdAt was fetched)
createdAtOnUpdate(existingCreatedAt, now) ==
    IF existingCreatedAt # 0 THEN existingCreatedAt ELSE now

\* The metadata of existing.vectors[0], {} when there is none.
existingMetadataOf(existing) ==
    IF existing # { }
    THEN (CHOOSE v \in existing : TRUE).metadata
    ELSE PromptMetadata(<< >>, << >>, << >>, << >>, NoUpload, -1, -1, 0, 0)

\* The metadata an update writes over the metadata it fetched.
updatedMetadata(promptText, extra, existingMetadata, now) ==
    PromptMetadata(promptText,
        OrElse(trim(extra.title), existingMetadata.title),
        OrElse(extra.tags, existingMetadata.tags),
        OrElse(trim(extra.source), existingMetadata.source),
        NoUpload, -1, -1,
        createdAtOnUpdate(existingMetadata.createdAt, now),
        now)

updatePrompt(userSub, key, promptText, extra, now, fault) ==
    LET indexName == IndexNameOf[userSub]
        d == doesIndexExist(indexName, fault)
        o == Outcome(Looked(indexName, d))
        stored == vectors[indexName]
        existing == GetVectors(stored, { key })
        existingMetadata == existingMetadataOf(existing)
        metadata == updatedMetadata(promptText, extra, existingMetadata, now)
        record == StoredVector(key, embedText(promptText), metadata, userSub, stored)
    IN  IF d.threw THEN o
        ELSE IF ~d.exists
        THEN Throw(o, << >>, "User index does not exist")
        ELSE IF fault = "GetVectors"
        THEN Throw(o, << "GetVectors" >>, "ServiceError")
        ELSE IF fault = "Embed"
        THEN Throw(o, << "GetVectors", "InvokeModel" >>, "EmbeddingError")
        ELSE IF fault = "PutVectors"
        THEN Throw(o, << "GetVectors", "InvokeModel", "PutVectors" >>, "ServiceError")
        ELSE [o EXCEPT
                 !.sent = o.sent \o << "GetVectors", "InvokeModel", "PutVectors" >>,
                 !.vectors = [vectors EXCEPT ![indexName] =
                                 PutVectors(stored, { record })],
                 !.touched = Writers(existing)]

\* A result the store hands on: a string key and non-blank text metadata.
Usable(v) == trim(v.metadata.text) # << >>

QueryDefaultTopK == 4
QueryMaxTopK == 200
ListDefaultLimit == 4

Min(a, b) == IF a < b THEN a ELSE b
Max(a, b) == IF a > b THEN a ELSE b

\* opts?.topK ?? 4 (opts: the set holding the topK of the caller, if any)
topKOrDefault(opts) ==
    IF opts = { } THEN QueryDefaultTopK ELSE CHOOSE n \in opts : TRUE

\* A topK without the cap of 200.
queryTopKNoCap(opts) == Max(1, topKOrDefault(opts))

\* Math.max(1, Math.min(opts?.topK ?? 4, 200))
queryTopK(opts) == Max(1, Min(topKOrDefault(opts), QueryMaxTopK))

\* The results with a string key and a non-blank text.
UsableOf(hits) == { v \in hits : Usable(v) }

\* .slice(0, n) of the results, whose order the service chooses.
Truncated(results, n) ==
    IF Cardinality(results) <= n THEN results
    ELSE CHOOSE r \in SUBSET results : Cardinality(r) = Max(0, n)

\* hits: the vectors the service answers with (at most topK of the index).
queryPromptRecords(userSub, queryText, opts, hits, fault) ==
    LET e == ensureUserIndex(userSub, fault)
        topK == queryTopK(opts)
        o == [Outcome(e) EXCEPT !.opts = opts, !.topK = topK]
        results == Truncated(UsableOf(hits), topK)
    IN  IF e.threw THEN [o EXCEPT !.topK = 0]
        ELSE IF fault = "Embed"
        THEN Throw([o EXCEPT !.topK = 0], << "InvokeModel" >>, "EmbeddingError")
        ELSE IF fault = "QueryVectors"
        THEN Throw(o, << "InvokeModel", "QueryVectors" >>, "ServiceError")
        ELSE [o EXCEPT
                 !.sent = o.sent \o << "InvokeModel", "QueryVectors" >>,
                 !.returned = KeysOf(results),
                 !.touched = Writers(results)]

listPromptRecords(userSub, limit, hits, fault) ==
    LET e == ensureUserIndex(userSub, fault)
        o == Outcome(e)
    IN  IF e.threw THEN o
        ELSE IF fault = "ListVectors"
        THEN Throw(o, << "ListVectors" >>, "ServiceError")
        ELSE [o EXCEPT
                 !.sent = o.sent \o << "ListVectors" >>,
                 !.returned = KeysOf({ v \in hits : Usable(v) }),
                 !.touched = Writers({ v \in hits : Usable(v) })]

\* The answers of QueryVectors and ListVectors: n vectors of the index, or
\* all of them when it holds fewer.
Answers(stored, n) ==
    { h \in SUBSET stored : Cardinality(h) = Min(n, Cardinality(stored)) }

(***************************************************************************)
(* The calls                                                               *)
(***************************************************************************)
\* A call takes effect: the state it leaves, and the record of the call.
Effect(op, userSub, key, text, extra, prompts, o) ==
    /\ calls' = calls + 1
    /\ clock' = clock + 1
    /\ indexes' = o.indexes
    /\ vectors' = o.vectors
    /\ embeddingDimensionPromise' = o.promise
    /\ lastCall' =
          [op |-> op, userSub |-> userSub, indexName |-> o.indexName,
           key |-> key, text |-> text, extra |-> extra, prompts |-> prompts,
           threw |-> o.threw, error |-> o.error, sent |-> o.sent,
           now |-> clock + 1,
           existed |-> indexes[o.indexName].exists,
           had |-> key \in KeysOf(vectors[o.indexName]),
           saved |-> o.saved, deleted |-> o.deleted, returned |-> o.returned,
           touched |-> o.touched, opts |-> o.opts, topK |-> o.topK]

\* A call made on the store directly.
Call(op, userSub, key, text, extra, prompts, o) ==
    /\ Effect(op, userSub, key, text, extra, prompts, o)
    /\ UNCHANGED << toolCall, outsideStore >>

WriteFaults == EnsureFaults \cup { "Embed", "PutVectors" }

\* No failure of an external call depends on the text, key or labels of the
\* call: a failing call is made with one input of each kind.
TextsAt(fault) == IF fault = "none" THEN Texts ELSE { Other }
KeysAt(fault) == IF fault = "none" THEN Keys ELSE { KeyOf[Other] }
ExtrasAt(fault) == IF fault = "none" THEN Extras ELSE { NoExtra }
BatchesAt(fault) ==
    IF fault = "none" THEN Batches ELSE { << Same, SameSpaced, Other >> }

UpsertPrompt ==
    /\ calls < MaxCalls
    /\ \E userSub \in Users, fault \in WriteFaults :
       \E promptText \in TextsAt(fault), extra \in ExtrasAt(fault) :
       \E o \in { upsertPrompt(userSub, promptText, extra, clock + 1, fault) } :
        Call("upsertPrompt", userSub, KeyOf[promptText], promptText,
             extra, << >>, o)

\* The uploadId of a batch: the caller's, or a fresh random one.
UploadIds(n) == { [kind |-> "given", n |-> 0], [kind |-> "random", n |-> n] }

UploadIdsAt(fault, n) ==
    IF fault = "none" THEN UploadIds(n) ELSE { [kind |-> "random", n |-> n] }

UpsertPrompts ==
    /\ calls < MaxCalls
    /\ \E userSub \in Users, fault \in WriteFaults :
       \E texts \in BatchesAt(fault), uploadId \in UploadIdsAt(fault, calls + 1),
          failAt \in 1..2 :
        /\ fault = "Embed" \/ failAt = 1
        /\ LET prompts == [i \in 1..Len(texts) |->
                              [text |-> texts[i], title |-> << >>,
                               tags |-> << >>, source |-> << >>]]
           IN  \E o \in { upsertPrompts(userSub, prompts, uploadId, clock + 1,
                                         fault, failAt) } :
                   Call("upsertPrompts", userSub, KeyOf[<< >>], << >>,
                        NoExtra, prompts, o)

DeletePrompt ==
    /\ calls < MaxCalls
    /\ \E userSub \in Users, fault \in IndexFaults \cup { "DeleteVectors" } :
       \E key \in KeysAt(fault) :
       \E o \in { deletePrompt(userSub, key, fault) } :
        Call("deletePrompt", userSub, key, << >>, NoExtra, << >>, o)

UpdatePrompt ==
    /\ calls < MaxCalls
    /\ \E userSub \in Users,
          fault \in IndexFaults \cup { "GetVectors", "Embed", "PutVectors" } :
       \E key \in KeysAt(fault), promptText \in TextsAt(fault),
          extra \in ExtrasAt(fault) :
       \E o \in { updatePrompt(userSub, key, promptText, extra, clock + 1, fault) } :
        Call("updatePrompt", userSub, key, promptText, extra, << >>, o)

QueryTexts == { << "b" >> }

QueryPromptRecords ==
    /\ calls < MaxCalls
    /\ \E userSub \in Users, queryText \in QueryTexts,
       fault \in EnsureFaults \cup { "Embed", "QueryVectors" } :
        \E hits \in Answers(vectors[IndexNameOf[userSub]], queryTopK({ })) :
        \E o \in { queryPromptRecords(userSub, queryText, { }, hits, fault) } :
            Call("queryPromptRecords", userSub, KeyOf[<< >>],
                 queryText, NoExtra, << >>, o)

ListPromptRecords ==
    /\ calls < MaxCalls
    /\ \E userSub \in Users, fault \in EnsureFaults \cup { "ListVectors" } :
        \E hits \in Answers(vectors[IndexNameOf[userSub]], ListDefaultLimit) :
        \E o \in { listPromptRecords(userSub, ListDefaultLimit, hits, fault) } :
            Call("listPromptRecords", userSub, KeyOf[<< >>], << >>,
                 NoExtra, << >>, o)

Next ==
    \/ UpsertPrompt
    \/ UpsertPrompts
    \/ DeletePrompt
    \/ UpdatePrompt
    \/ QueryPromptRecords
    \/ ListPromptRecords

Spec == Init /\ [][Next]_vars

(***************************************************************************)
(* The tools of the MCP server (server.ts, CallTool handler)               *)
(***************************************************************************)
\* The auth contexts of a session: a valid token of a user, no token, a bad
\* token, a token short of a scope, and a valid token without a subject.
ToolUsers == { << "A" >> }

\* The number of tools/call requests in a run.
MaxToolCalls == 3

AuthContexts ==
    { [authorized |-> TRUE, error |-> "", subject |-> u] : u \in ToolUsers }
    \cup { [authorized |-> FALSE, error |-> "missing_token", subject |-> << >>],
           [authorized |-> FALSE, error |-> "invalid_token", subject |-> << >>],
           [authorized |-> FALSE, error |-> "insufficient_scope",
            subject |-> << "A" >>],
           [authorized |-> TRUE, error |-> "", subject |-> << >>] }

\* A key argument is a string: a literal part, then the digits of a digest.
EmptyKey == [prefix |-> "", hash |-> NoHash]
BlankKey == [prefix |-> " ", hash |-> NoHash]

\* typeof arguments?.x === "string" ? arguments.x : ""  (x: { } when it is
\* absent or no string)
StringArgument(x) == IF x = { } THEN << >> ELSE CHOOSE t \in x : TRUE
KeyArgument(x) == IF x = { } THEN EmptyKey ELSE CHOOSE k \in x : TRUE

\* A check that lets every text and key pass.
HasTextAlways(text) == TRUE
HasKeyAlways(key) == TRUE

\* text.trim() and key.trim() are non-empty.
HasText(text) == trim(text) # << >>
HasKey(key) == ~(key.hash = NoHash /\ key.prefix \in { "", " " })

NoArguments == [text |-> { }, key |-> { }, extra |-> NoExtra, query |-> { }]

\* The result of a tools/call request, and the parts of its
\* structuredContent.
ToolResult(isError, text, status) ==
    [isError |-> isError, text |-> text, wwwAuthenticate |-> "",
     status |-> status, deleted |-> FALSE, prompts |-> { }, matches |-> { }]

authErrorResult(message, error) ==
    [ToolResult(TRUE, message, "") EXCEPT !.wwwAuthenticate = error]

normalizedToolName(toolName) ==
    IF toolName = "fetchRelevantPrompts" THEN "fetchPrompt" ELSE toolName

requiresAuth(toolName) ==
    normalizedToolName(toolName)
        \in { "fetchPrompt", "savePrompt", "deletePrompt", "updatePrompt" }

Refused(authContext, toolName) ==
    requiresAuth(toolName)
        /\ (~authContext.authorized \/ authContext.subject = << >>)

\* The answer to a call whose session is not authorized.
AuthError(authContext) ==
    IF ~authContext.authorized
    THEN authErrorResult(
             IF authContext.error = "invalid_token"
             THEN "Authentication required: invalid access token."
             ELSE "Authentication required: no access token provided.",
             IF authContext.error = "invalid_token" THEN "invalid_token"
             ELSE IF authContext.error = "insufficient_scope"
                  THEN "insufficient_scope"
                  ELSE "invalid_request")
    ELSE authErrorResult(
             "Authentication required: missing user identity on token.",
             "invalid_token")

\* A request answered without a call of the store.
Answer(toolName, authContext, arguments, result) ==
    /\ calls' = calls + 1
    /\ clock' = clock + 1
    /\ lastCall' = NoCall
    /\ UNCHANGED << indexes, vectors, embeddingDimensionPromise, outsideStore >>
    /\ toolCall' = [tool |-> toolName, authContext |-> authContext,
                    arguments |-> arguments, result |-> result]

\* A request answered after the call `op` of the store with outcome o.
Through(toolName, authContext, arguments, op, key, text, o, result) ==
    /\ Effect(op, authContext.subject, key, text, arguments.extra, << >>, o)
    /\ UNCHANGED outsideStore
    /\ toolCall' = [tool |-> toolName, authContext |-> authContext,
                    arguments |-> arguments, result |-> result]

\* The arguments of a call: any of them where nothing fails, one of each
\* kind where the session is refused or an external call fails.
TextArguments(simple) ==
    IF simple THEN { { Other } } ELSE { { }, { Blank }, { Same }, { Other } }

KeyArguments(simple) ==
    IF simple THEN { { KeyOf[Other] } }
    ELSE { { }, { BlankKey }, { KeyOf[Same] }, { KeyOf[Other] } }

ExtraArguments(simple) == IF simple THEN { NoExtra } ELSE Extras

FaultsOf(authContext, toolName, faults) ==
    IF Refused(authContext, toolName) THEN { "none" } ELSE faults

SavePromptTool ==
    /\ calls < MaxToolCalls
    /\ \E authContext \in AuthContexts :
       \E fault \in FaultsOf(authContext, "savePrompt", WriteFaults) :
       LET simple == fault # "none" \/ Refused(authContext, "savePrompt")
       IN  \E t \in TextArguments(simple), extra \in ExtraArguments(simple) :
           LET arguments == [NoArguments EXCEPT !.text = t, !.extra = extra]
               userSub == authContext.subject
               text == StringArgument(t)
           IN  IF Refused(authContext, "savePrompt")
               THEN Answer("savePrompt", authContext, arguments,
                           AuthError(authContext))
               ELSE IF ~HasText(text)
               THEN Answer("savePrompt", authContext, arguments,
                           ToolResult(TRUE, "Missing required input: text.", ""))
               ELSE \E o \in { upsertPrompt(userSub, text, extra, clock + 1, fault) } :
                    Through("savePrompt", authContext, arguments,
                        "upsertPrompt", KeyOf[text], text, o,
                        IF o.threw
                        THEN ToolResult(TRUE, "Failed to save prompt.", "")
                        ELSE ToolResult(FALSE, "Prompt saved.", "success"))

DeletePromptTool ==
    /\ calls < MaxToolCalls
    /\ \E authContext \in AuthContexts :
       \E fault \in FaultsOf(authContext, "deletePrompt",
                             IndexFaults \cup { "DeleteVectors" }) :
       LET simple == fault # "none" \/ Refused(authContext, "deletePrompt")
       IN  \E k \in KeyArguments(simple) :
           LET arguments == [NoArguments EXCEPT !.key = k]
               userSub == authContext.subject
               key == KeyArgument(k)
           IN  IF Refused(authContext, "deletePrompt")
               THEN Answer("deletePrompt", authContext, arguments,
                           AuthError(authContext))
               ELSE IF ~HasKey(key)
               THEN Answer("deletePrompt", authContext, arguments,
                           ToolResult(TRUE, "Missing required input: key.", ""))
               ELSE \E o \in { deletePrompt(userSub, key, fault) } :
                    Through("deletePrompt", authContext, arguments,
                        "deletePrompt", key, << >>, o,
                        IF o.threw
                        THEN ToolResult(TRUE, "Failed to delete prompt.", "")
                        ELSE [ToolResult(FALSE,
                                  IF o.deleted THEN "Prompt deleted."
                                  ELSE "Prompt not found.", "success")
                              EXCEPT !.deleted = o.deleted])

UpdatePromptTool ==
    /\ calls < MaxToolCalls
    /\ \E authContext \in AuthContexts :
       \E fault \in FaultsOf(authContext, "updatePrompt",
                     IndexFaults \cup { "GetVectors", "Embed", "PutVectors" }) :
       LET simple == fault # "none" \/ Refused(authContext, "updatePrompt")
       IN  \E k \in KeyArguments(simple), t \in TextArguments(simple),
              extra \in ExtraArguments(simple) :
           LET arguments == [NoArguments EXCEPT !.key = k, !.text = t,
                                                !.extra = extra]
               userSub == authContext.subject
               key == KeyArgument(k)
               text == StringArgument(t)
           IN  IF Refused(authContext, "updatePrompt")
               THEN Answer("updatePrompt", authContext, arguments,
                           AuthError(authContext))
               ELSE IF ~HasKey(key) \/ ~HasText(text)
               THEN Answer("updatePrompt", authContext, arguments,
                           ToolResult(TRUE,
                               "Missing required input: key and text.", ""))
               ELSE \E o \in { updatePrompt(userSub, key, text, extra, clock + 1, fault) } :
                    Through("updatePrompt", authContext, arguments,
                        "updatePrompt", key, text, o,
                        IF o.threw
                        THEN ToolResult(TRUE, "Failed to update prompt.", "")
                        ELSE ToolResult(FALSE, "Prompt updated.", "success"))

\* The query of a fetch: absent, blank, or a text.
QueryArguments(simple) ==
    IF simple THEN { { << "b" >> } } ELSE { { }, { << " " >> }, { << "b" >> } }

\* The distances QueryVectors reports, in hundredths.
Distances == { 10, 15, 50 }

FetchLimit == 4

\* The records of the store's answer: key, distance (if any) and text.
Matches(hits, returned, distance) ==
    { [key |-> v.key, distance |-> distance[v.key], text |-> v.metadata.text] :
        v \in { h \in hits : h.key \in returned } }

\* matches.map(m => m?.metadata?.text).filter(non-blank string).slice(0, 4)
PromptsOf(matches) ==
    { m.text : m \in Truncated({ n \in matches : trim(n.text) # << >> }, FetchLimit) }

\* What a fetch answers after the call of the store with outcome o.
FetchResult(o, hits, distance) ==
    LET matches == IF o.threw THEN { } ELSE Matches(hits, o.returned, distance)
    IN  [ToolResult(FALSE,
             "Here are your top prompt suggestions from PromptBank.", "success")
         EXCEPT !.matches = { [key |-> m.key, distance |-> m.distance] :
                                 m \in matches },
                !.prompts = PromptsOf(matches)]

\* The names that reach the last branch of the handler: the two names of the
\* fetch tool and every name that is no tool of the server.
FetchToolNames == { "fetchPrompt", "fetchRelevantPrompts", "listPrompts" }

FetchPromptTool ==
    /\ calls < MaxToolCalls
    /\ \E authContext \in AuthContexts, toolName \in FetchToolNames :
       \E fault \in FaultsOf(authContext, toolName,
                     EnsureFaults \cup { "Embed", "QueryVectors", "ListVectors" }) :
       LET simple == fault # "none" \/ Refused(authContext, toolName)
       IN  \E q \in QueryArguments(simple) :
           LET arguments == [NoArguments EXCEPT !.query = q]
               userSub == authContext.subject
               trimmedQuery == trim(StringArgument(q))
               stored == vectors[IndexNameOf[userSub]]
           IN  IF Refused(authContext, toolName)
               THEN Answer(toolName, authContext, arguments,
                           AuthError(authContext))
               ELSE IF userSub = << >>
               THEN \* userIndexName(undefined) throws inside the try
                    /\ fault = "none"
                    /\ Answer(toolName, authContext, arguments,
                              ToolResult(FALSE,
                                  "Here are your top prompt suggestions from PromptBank.",
                                  "success"))
               ELSE IF trimmedQuery # << >>
               THEN /\ fault # "ListVectors"
                    /\ \E hits \in Answers(stored, queryTopK({ })) :
                       \E distance \in [KeysOf(hits) -> Distances] :
                       \E o \in { queryPromptRecords(userSub, trimmedQuery, { },
                                                      hits, fault) } :
                           Through(toolName, authContext, arguments,
                               "queryPromptRecords", KeyOf[<< >>], trimmedQuery,
                               o, FetchResult(o, hits, distance))
               ELSE /\ fault \notin { "Embed", "QueryVectors" }
                    /\ \E hits \in Answers(stored, FetchLimit) :
                       \E o \in { listPromptRecords(userSub, FetchLimit, hits, fault) },
                          distance \in { [k \in KeysOf(hits) |-> -1] } :
                           Through(toolName, authContext, arguments,
                               "listPromptRecords", KeyOf[<< >>], << >>,
                               o, FetchResult(o, hits, distance))

ToolNext ==
    \/ SavePromptTool
    \/ DeletePromptTool
    \/ UpdatePromptTool
    \/ FetchPromptTool

ToolSpec == Init /\ [][ToolNext]_vars

(***************************************************************************)
(* Queries with a topK of the caller                                       *)
(***************************************************************************)
\* The opts of a query: no topK, or one below, at and above the limits.
TopKs == { { }, { -1 }, { 0 }, { 1 }, { 2 }, { QueryMaxTopK }, { QueryMaxTopK + 1 } }

QueryWithTopK ==
    /\ calls < MaxCalls
    /\ \E userSub \in Users, queryText \in QueryTexts, opts \in TopKs,
          fault \in { "none", "Embed", "QueryVectors" } :
        \E hits \in Answers(vectors[IndexNameOf[userSub]], queryTopK(opts)) :
        \E o \in { queryPromptRecords(userSub, queryText, opts, hits, fault) } :
            Call("queryPromptRecords", userSub, KeyOf[<< >>], queryText,
                 NoExtra, << >>, o)

QueryNext ==
    \/ UpsertPrompts
    \/ QueryWithTopK

QuerySpec == Init /\ [][QueryNext]_vars

(***************************************************************************)
(* The functions of a text, applied to a text and to a variant of it       *)
(***************************************************************************)
\* The length up to which a text is varied.
MaxTextLen == 4

Letters == UpperCaseSet \cup { LowerCase[i] : i \in 1..Len(LowerCase) }

\* String.prototype.toUpperCase, one character.
toUpperCaseChar(c) ==
    IF \E i \in 1..Len(LowerCase) : LowerCase[i] = c
    THEN UpperCase[CHOOSE i \in 1..Len(LowerCase) : LowerCase[i] = c]
    ELSE c

ShortTexts ==
    { << >>, << " " >>, << "b" >>, << "A", " ", "b" >>, << "a", "\n", "B" >> }

\* Texts about as long as the preview: one word, two words with the gap
\* where the preview is cut, and a word within whitespace.
LongTexts ==
    { Repeat("a", n) : n \in (PreviewMaxLen - 2)..(PreviewMaxLen + 2) }
    \cup { Repeat("a", n) \o << " " >> \o Repeat("b", 5) :
              n \in (PreviewMaxLen - 4)..(PreviewMaxLen - 1) }
    \cup { << " ", "\n" >> \o Repeat("a", n) \o << "\t", " " >> :
              n \in (PreviewMaxLen - 1)..(PreviewMaxLen + 1) }

TextInit ==
    /\ StoreInit
    /\ DemoInit
    /\ SessionInit
    /\ NoUpdates
    /\ NoEnsures
    /\ NoWidget
    /\ original \in ShortTexts \cup LongTexts
    /\ variant = original
    /\ applied = NotApplied

Varying == applied = NotApplied /\ Len(variant) <= MaxTextLen

InWhiteSpace(s, i) == i \in 1..Len(s) /\ s[i] \in WhiteSpace

\* A whitespace character more: before the text, after it, or in a run.
Respace ==
    /\ Varying
    /\ Len(variant) < MaxTextLen
    /\ \E i \in 0..Len(variant), w \in WhiteSpace :
          /\ \/ i = 0
             \/ i = Len(variant)
             \/ InWhiteSpace(variant, i)
             \/ InWhiteSpace(variant, i + 1)
          /\ variant' = SubSeq(variant, 1, i) \o << w >>
                            \o SubSeq(variant, i + 1, Len(variant))
    /\ UNCHANGED << outsideTexts, original, applied >>

\* A whitespace character less: at an end of the text, or in a run of two.
Unspace ==
    /\ Varying
    /\ \E i \in 1..Len(variant) :
          /\ InWhiteSpace(variant, i)
          /\ \/ i = 1
             \/ i = Len(variant)
             \/ InWhiteSpace(variant, i - 1)
             \/ InWhiteSpace(variant, i + 1)
          /\ variant' = SubSeq(variant, 1, i - 1)
                            \o SubSeq(variant, i + 1, Len(variant))
    /\ UNCHANGED << outsideTexts, original, applied >>

\* A letter in the other case.
Recase ==
    /\ Varying
    /\ \E i \in 1..Len(variant) :
          /\ variant[i] \in Letters
          /\ variant' = [variant EXCEPT ![i] =
                            IF @ \in UpperCaseSet THEN toLowerCaseChar(@)
                            ELSE toUpperCaseChar(@)]
    /\ UNCHANGED << outsideTexts, original, applied >>

Apply(fn, values) ==
    /\ applied = NotApplied
    /\ applied' = [fn |-> fn, values |-> values]
    /\ UNCHANGED << outsideTexts, original, variant >>

PromptKeyFromText ==
    Apply("promptKeyFromText",
          << promptKeyFromText(original), promptKeyFromText(variant) >>)

PreviewText ==
    Apply("previewText",
          << previewText(original, PreviewMaxLen),
             previewText(variant, PreviewMaxLen) >>)

TextNext ==
    \/ Respace
    \/ Unspace
    \/ Recase
    \/ PromptKeyFromText
    \/ PreviewText

TextSpec == TextInit /\ [][TextNext]_vars

(***************************************************************************)
(* The demo server (demo/server/server.mjs)                                *)
(***************************************************************************)
\* The sessionIds the transports draw, in the order they are drawn, and the
\* number of tools/call requests in a run.
DemoSessionIds == { 1, 2 }
MaxDemoCalls == 3

DemoDefaultLimit == 10
DemoMaxLimit == 50

DemoEllipsis == << "U+2026" >>

demoPreviewText(text, maxLen) ==
    LET normalized == trim(replaceRuns(text, WhiteSpace, " "))
    IN  IF Len(normalized) <= maxLen
        THEN normalized
        ELSE trimEnd(slice0(normalized, maxLen - 1)) \o DemoEllipsis

\* A store that every session shares.
getStoreShared(sessionId) == 1

\* The store of a session: the entry of storesBySession under its id.
getStore(sessionId) == sessionId

\* s.includes(q)
includes(s, q) ==
    \E i \in 0..(Len(s) - Len(q)) : SubSeq(s, i + 1, i + Len(q)) = q

\* A result of the demo server and the parts of its structuredContent.
DemoResult(isError, text, status) ==
    [isError |-> isError, text |-> text, status |-> status, prompt |-> << >>,
     deleted |-> FALSE, count |-> -1, lastUpdatedAt |-> -1, matches |-> << >>]

\* `p-${randomUUID()}`: the n-th identifier drawn.
DemoKey(n) == [prefix |-> "p-", uuid |-> n]

DemoTexts == { << " " >>, << "b", " " >> }
DemoTitles == { << >>, << "T" >> }
DemoPreviews == { << >>, << "b" >> }

\* An absent or blank key argument.
NoDemoKey == [prefix |-> "", uuid |-> 0]

\* The keys of all stores, one that no store holds, and none.
DemoKeys ==
    UNION { { storesBySession[i].prompts[j].key :
                j \in 1..Len(storesBySession[i].prompts) } :
            i \in DOMAIN storesBySession } \cup { DemoKey(0), NoDemoKey }

\* storesBySession once getStore has looked the store `id` up.
WithStore(id) ==
    [i \in DOMAIN storesBySession \cup { id } |->
        IF i \in DOMAIN storesBySession THEN storesBySession[i]
        ELSE [prompts |-> << >>]]

\* GET /mcp: a transport with a fresh sessionId, its store and its server.
handleSse ==
    /\ \E sessionId \in DemoSessionIds :
          LET used == demoSessions \cup DOMAIN storesBySession
          IN  /\ sessionId \notin used
              /\ \A earlier \in DemoSessionIds : earlier < sessionId => earlier \in used
              /\ storesBySession' = WithStore(getStore(sessionId))
              /\ demoSessions' = demoSessions \cup { sessionId }
    /\ UNCHANGED << outsideDemo, demoClock, demoCall >>

\* The transport of a session closes.
DemoClose ==
    /\ \E sessionId \in demoSessions :
          demoSessions' = demoSessions \ { sessionId }
    /\ UNCHANGED << outsideDemo, storesBySession, demoClock, demoCall >>

\* A tools/call request of a session is answered and leaves its store with
\* the list `prompts`.
DemoAnswer(sessionId, name, args, prompts, result) ==
    /\ demoClock' = demoClock + 1
    /\ storesBySession' =
          [storesBySession EXCEPT ![getStore(sessionId)].prompts = prompts]
    /\ demoCall' = [tool |-> name, sessionId |-> sessionId, result |-> result]
    /\ UNCHANGED << outsideDemo, demoSessions >>

DemoRequest(sessionId) ==
    demoClock < MaxDemoCalls /\ sessionId \in demoSessions

DemoSavePrompt ==
    \E sessionId \in demoSessions, t \in DemoTexts, title \in DemoTitles :
        LET store == storesBySession[getStore(sessionId)]
            text == trim(t)
            record == [key |-> DemoKey(demoClock + 1), text |-> text,
                       title |-> trim(title), createdAt |-> demoClock + 1,
                       updatedAt |-> demoClock + 1]
        IN  /\ DemoRequest(sessionId)
            /\ IF text = << >>
               THEN DemoAnswer(sessionId, "savePrompt", [text |-> t], store.prompts,
                        DemoResult(TRUE, "Missing required input: text.", ""))
               ELSE DemoAnswer(sessionId, "savePrompt", [text |-> t],
                        << record >> \o store.prompts,
                        [DemoResult(FALSE, "Prompt saved.", "success")
                            EXCEPT !.prompt = << record >>])

\* store.prompts.find((p) => p.key === key): its position, 0 when absent.
findIndex(prompts, key) ==
    IF \E i \in 1..Len(prompts) : prompts[i].key = key
    THEN CHOOSE i \in 1..Len(prompts) :
            /\ prompts[i].key = key
            /\ \A j \in 1..(i - 1) : prompts[j].key # key
    ELSE 0

DemoUpdatePrompt ==
    \E sessionId \in demoSessions, key \in DemoKeys, t \in DemoTexts, ti \in DemoTitles :
        LET store == storesBySession[getStore(sessionId)]
            text == trim(t)
            title == trim(ti)
            at == findIndex(store.prompts, key)
            existing == [store.prompts[at] EXCEPT
                            !.text = text,
                            !.title = IF title # << >> THEN title ELSE @,
                            !.updatedAt = demoClock + 1]
            args == [key |-> key, text |-> t, title |-> ti]
        IN  /\ DemoRequest(sessionId)
            /\ IF key = NoDemoKey \/ text = << >>
               THEN DemoAnswer(sessionId, "updatePrompt", args, store.prompts,
                        DemoResult(TRUE, "Missing required input: key and text.", ""))
               ELSE IF at = 0
               THEN DemoAnswer(sessionId, "updatePrompt", args, store.prompts,
                        DemoResult(TRUE, "Prompt not found.", ""))
               ELSE DemoAnswer(sessionId, "updatePrompt", args,
                        [store.prompts EXCEPT ![at] = existing],
                        [DemoResult(FALSE, "Prompt updated.", "success")
                            EXCEPT !.prompt = << existing >>])

DemoDeletePrompt ==
    \E sessionId \in demoSessions, key \in DemoKeys, preview \in DemoPreviews :
        LET store == storesBySession[getStore(sessionId)]
            kept == SelectSeq(store.prompts, LAMBDA p : p.key # key)
            deleted == Len(kept) # Len(store.prompts)
            args == [key |-> key, preview |-> preview]
        IN  /\ DemoRequest(sessionId)
            /\ IF key = NoDemoKey \/ trim(preview) = << >>
               THEN DemoAnswer(sessionId, "deletePrompt", args, store.prompts,
                        DemoResult(TRUE,
                            "Missing required input: prompt.key + prompt.preview.", ""))
               ELSE DemoAnswer(sessionId, "deletePrompt", args, kept,
                        [DemoResult(FALSE,
                            IF deleted THEN "Prompt deleted." ELSE "Prompt not found.",
                            "success") EXCEPT !.deleted = deleted])

\* What promptInsights reports of a list of prompts.
promptInsights(prompts) ==
    [DemoResult(FALSE, "Here is a quick summary of your prompt library.", "success")
        EXCEPT !.count = Len(prompts),
               !.lastUpdatedAt = IF prompts = << >> THEN -1 ELSE prompts[1].updatedAt]

DemoPromptInsights ==
    \E sessionId \in demoSessions :
        LET store == storesBySession[getStore(sessionId)]
        IN  /\ DemoRequest(sessionId)
            /\ DemoAnswer(sessionId, "promptInsights", << >>, store.prompts,
                          promptInsights(store.prompts))

DemoQueries == { << >>, << "T", " " >> }
DemoLimits == { { }, { 0 } }

listLimit(limit) ==
    IF limit = { } THEN DemoDefaultLimit
    ELSE Max(1, Min(DemoMaxLimit, Only(limit)))

\* What listPrompts returns of a list of prompts.
listPrompts(prompts, q, limit) ==
    LET query == toLowerCase(trim(q))
        filtered == IF query # << >>
                    THEN SelectSeq(prompts,
                            LAMBDA p : includes(toLowerCase(p.title \o << " " >> \o p.text),
                                                query))
                    ELSE prompts
        shown == slice0(filtered, listLimit(limit))
    IN  [DemoResult(FALSE, "Here are your saved prompts.", "success")
            EXCEPT !.matches =
                [i \in 1..Len(shown) |->
                    [key |-> shown[i].key, text |-> shown[i].text,
                     preview |-> demoPreviewText(shown[i].text, PreviewMaxLen),
                     title |-> shown[i].title, createdAt |-> shown[i].createdAt]]]

DemoListPrompts ==
    \E sessionId \in demoSessions, q \in DemoQueries, limit \in DemoLimits :
        LET store == storesBySession[getStore(sessionId)]
        IN  /\ DemoRequest(sessionId)
            /\ DemoAnswer(sessionId, "listPrompts", [query |-> q, limit |-> limit],
                          store.prompts, listPrompts(store.prompts, q, limit))

DemoNext ==
    \/ handleSse
    \/ DemoClose
    \/ DemoSavePrompt
    \/ DemoUpdatePrompt
    \/ DemoDeletePrompt
    \/ DemoPromptInsights
    \/ DemoListPrompts

DemoSpec == Init /\ [][DemoNext]_vars

(***************************************************************************)
(* The session map of the server (handleSseRequest, handlePostMessage)     *)
(***************************************************************************)
\* The sessionIds the transports draw, in the order they are drawn, and the
\* number of POSTs in a run.
SessionIds == { 1, 2 }
MaxPosts == 2

\* A POST without a sessionId query parameter.
NoSessionId == 0

\* The response to a POST; Awaiting while its handler is at an await.
Awaiting == 0
BadRequest == 400
NotFound == 404
Accepted == 202
ServerError == 500

\* The authContext of a new session, and what validateAuthHeader makes of the
\* Authorization header of a request.
NewAuthContext == [authorized |-> FALSE, error |-> "", subject |-> << >>]
SessionAuths ==
    { [authorized |-> TRUE, error |-> "", subject |-> << "A" >>],
      [authorized |-> FALSE, error |-> "missing_token", subject |-> << >>] }

\* The header of a POST that is answered before its header is looked at.
NewAuthContextOf(auths) == CHOOSE a \in auths : ~a.authorized

\* sessions.set(sessionId, record)
sessionsSet(map, sessionId, authContext) ==
    [id \in DOMAIN map \cup { sessionId } |->
        IF id = sessionId THEN authContext ELSE map[id]]

\* A map that keeps what is deleted.
sessionsKeep(map, sessionId) == map

\* sessions.delete(sessionId)
sessionsDelete(map, sessionId) ==
    [id \in DOMAIN map \ { sessionId } |-> map[id]]

\* session.authContext is assigned; the record may have left the map.
Authenticated(map, sessionId, authContext) ==
    IF sessionId \in DOMAIN map
    THEN [map EXCEPT ![sessionId] = authContext]
    ELSE map

TransportIs(sessionId, state) ==
    sessionId \in DOMAIN transports /\ transports[sessionId] = state

\* GET /mcp up to its first await: the session is in the map.
handleSseRequest ==
    /\ \E sessionId \in SessionIds :
          /\ sessionId \notin DOMAIN transports
          /\ \A earlier \in SessionIds :
                earlier < sessionId => earlier \in DOMAIN transports
          /\ sessions' = sessionsSet(sessions, sessionId, NewAuthContext)
          /\ transports' =
                [id \in DOMAIN transports \cup { sessionId } |->
                    IF id = sessionId THEN "connecting" ELSE transports[id]]
    /\ UNCHANGED << outsideSessions, posts, dispatched >>

\* The header is validated and server.connect(transport) succeeds.
SseConnected ==
    /\ \E sessionId \in DOMAIN transports, authResult \in SessionAuths :
          /\ TransportIs(sessionId, "connecting")
          /\ sessions' = Authenticated(sessions, sessionId, authResult)
          /\ transports' = [transports EXCEPT ![sessionId] = "open"]
    /\ UNCHANGED << outsideSessions, posts, dispatched >>

\* server.connect(transport) throws: the catch deletes the session.
SseFailed ==
    /\ \E sessionId \in DOMAIN transports :
          /\ TransportIs(sessionId, "connecting")
          /\ sessions' = sessionsDelete(sessions, sessionId)
          /\ transports' = [transports EXCEPT ![sessionId] = "failed"]
    /\ UNCHANGED << outsideSessions, posts, dispatched >>

\* transport.onclose: the transport of a connected session closes.
TransportClosed ==
    /\ \E sessionId \in DOMAIN transports :
          /\ TransportIs(sessionId, "open")
          /\ sessions' = sessionsDelete(sessions, sessionId)
          /\ transports' = [transports EXCEPT ![sessionId] = "closed"]
    /\ UNCHANGED << outsideSessions, posts, dispatched >>

\* The handler of a POST is at no await, or no handler ran the message.
NoAwait == "none"
NotRun == [authorized |-> FALSE, error |-> "not run", subject |-> << >>]

\* POST /mcp/messages up to its first await.  `header` is what
\* validateAuthHeader will make of the Authorization header of the request.
\* A client learns the sessionId of a transport when the transport starts:
\* no POST names a session that is still connecting.
handlePostMessage ==
    /\ Len(posts) < MaxPosts
    /\ \E sessionId \in SessionIds \cup { NoSessionId }, header \in SessionAuths :
          LET found == sessionId # NoSessionId /\ sessionId \in DOMAIN sessions
          IN  /\ ~TransportIs(sessionId, "connecting")
              /\ found \/ header = NewAuthContextOf(SessionAuths)
              /\ posts' = Append(posts,
                     [sessionId |-> sessionId,
                      header |-> header,
                      await |-> IF found THEN "validateAuthHeader" ELSE NoAwait,
                      ran |-> NotRun,
                      status |-> IF sessionId = NoSessionId THEN BadRequest
                                 ELSE IF ~found THEN NotFound
                                 ELSE Awaiting])
    /\ UNCHANGED << outsideSessions, sessions, transports, dispatched >>

\* validateAuthHeader has answered: the authContext of the session the POST
\* found is assigned and the request is handed to its transport, which reads
\* the body.
PostAuthenticated ==
    /\ \E n \in DOMAIN posts :
          /\ posts[n].await = "validateAuthHeader"
          /\ sessions' = Authenticated(sessions, posts[n].sessionId, posts[n].header)
          /\ posts' = [posts EXCEPT ![n].await = "transport.handlePostMessage"]
    /\ UNCHANGED << outsideSessions, transports, dispatched >>

\* The transport has read the body: it hands the message to the server of
\* its session, whose handler runs with the authContext of the session as it
\* is now; or it throws.
PostMessageHandled ==
    /\ \E n \in DOMAIN posts, thrown \in BOOLEAN :
          LET sessionId == posts[n].sessionId
              taken == TransportIs(sessionId, "open") /\ ~thrown
          IN  /\ posts[n].await = "transport.handlePostMessage"
              /\ posts' = [posts EXCEPT
                              ![n].await = NoAwait,
                              ![n].ran = IF taken THEN sessions[sessionId] ELSE NotRun,
                              ![n].status = IF taken THEN Accepted ELSE ServerError]
              /\ dispatched' = IF taken THEN dispatched \cup { n } ELSE dispatched
    /\ UNCHANGED << outsideSessions, sessions, transports >>

SessionNext ==
    \/ handleSseRequest
    \/ SseConnected
    \/ SseFailed
    \/ TransportClosed
    \/ handlePostMessage
    \/ PostAuthenticated
    \/ PostMessageHandled

SessionSpec == Init /\ [][SessionNext]_vars

(***************************************************************************)
(* Concurrent updatePrompt calls: each await of the method is a step       *)
(***************************************************************************)
\* The concurrent calls, all of one user on one key.
UpdateCalls == { 1, 2 }
RaceUser == << "A" >>
RaceKey == KeyOf[Other]

\* One call names a title only, another tags only.
TitleOnly == [title |-> << "U" >>, tags |-> << >>, source |-> << >>]
TagsOnly == [title |-> << >>, tags |-> << "y" >>, source |-> << >>]
RaceExtras == { TitleOnly, TagsOnly }

\* The call c moves on to the await `pc`.
Moved(c, pc) == updating' = [updating EXCEPT ![c].pc = pc]

\* The prompt is saved before any update begins.
RaceSaved ==
    /\ calls = 0
    /\ updating = << >>
    /\ \E extra \in Extras :
       \E o \in { upsertPrompt(RaceUser, Other, extra, clock + 1, "none") } :
          Call("upsertPrompt", RaceUser, RaceKey, Other, extra, << >>, o)

\* updatePrompt is called: GetIndex is sent.
UpdateCalled ==
    /\ \E c \in UpdateCalls \ DOMAIN updating, promptText \in { Same, Other },
          extra \in RaceExtras :
          updating' =
              [d \in DOMAIN updating \cup { c } |->
                  IF d # c THEN updating[d]
                  ELSE [pc |-> "GetIndex", promptText |-> promptText,
                        extra |-> extra,
                        metadata |-> existingMetadataOf({ })]]
    /\ UNCHANGED << storeVars, outsideRace >>

\* doesIndexExist answers: without the index the call throws, with it
\* GetVectors is sent.
UpdateLooked ==
    /\ \E c \in DOMAIN updating :
          /\ updating[c].pc = "GetIndex"
          /\ \E d \in { doesIndexExist(IndexNameOf[RaceUser], "none") } :
                Moved(c, IF d.exists THEN "GetVectors" ELSE "thrown")
    /\ UNCHANGED << storeVars, outsideRace >>

\* GetVectors answers with what is stored now: the metadata to write is
\* built from it and the embedding is asked for.
UpdateFetched ==
    /\ \E c \in DOMAIN updating :
          LET existing == GetVectors(vectors[IndexNameOf[RaceUser]], { RaceKey })
              u == updating[c]
          IN  /\ u.pc = "GetVectors"
              /\ updating' =
                    [updating EXCEPT
                        ![c].pc = "InvokeModel",
                        ![c].metadata =
                            updatedMetadata(u.promptText, u.extra,
                                            existingMetadataOf(existing), clock + 1)]
    /\ clock' = clock + 1
    /\ UNCHANGED << indexes, vectors, embeddingDimensionPromise, calls, lastCall,
                    outsideRace >>

\* The embedding arrives: PutVectors is sent.
UpdateEmbedded ==
    /\ \E c \in DOMAIN updating :
          /\ updating[c].pc = "InvokeModel"
          /\ Moved(c, "PutVectors")
    /\ UNCHANGED << storeVars, outsideRace >>

\* PutVectors writes the record of the call and the call returns.
UpdateWritten ==
    /\ \E c \in DOMAIN updating :
          LET indexName == IndexNameOf[RaceUser]
              stored == vectors[indexName]
              u == updating[c]
              record == StoredVector(RaceKey, embedText(u.promptText), u.metadata,
                                     RaceUser, stored)
          IN  /\ u.pc = "PutVectors"
              /\ vectors' = [vectors EXCEPT ![indexName] =
                                PutVectors(stored, { record })]
              /\ Moved(c, "returned")
    /\ UNCHANGED << indexes, embeddingDimensionPromise, clock, calls, lastCall,
                    outsideRace >>

\* The external call a call waits for fails: the call throws.
UpdateThrown ==
    /\ \E c \in DOMAIN updating :
          /\ updating[c].pc \in { "GetIndex", "GetVectors", "InvokeModel", "PutVectors" }
          /\ Moved(c, "thrown")
    /\ UNCHANGED << storeVars, outsideRace >>

RaceNext ==
    \/ RaceSaved
    \/ UpdateCalled
    \/ UpdateLooked
    \/ UpdateFetched
    \/ UpdateEmbedded
    \/ UpdateWritten
    \/ UpdateThrown

RaceSpec == Init /\ [][RaceNext]_vars

(***************************************************************************)
(* Concurrent ensureUserIndex calls of one store instance: each await of   *)
(* the method is a step                                                    *)
(***************************************************************************)
\* The concurrent first operations (save, batch save, query, list): each
\* begins with ensureUserIndex.
EnsureCalls == { 1, 2 }

\* The vector lengths the embedding model may answer the probe with.
ProbeDimensions == { ModelDimension, "dim2" }

Command(name, by, indexName, dimension) ==
    [command |-> name, by |-> by, indexName |-> indexName, dimension |-> dimension]

\* A getEmbeddingDimension that embeds the probe at every call.
probeAlways(promise) == [promise |-> "pending", sent |-> TRUE]

\* getEmbeddingDimension up to its return: the probe is sent unless a
\* promise is stored, pending or settled.
probeOnce(promise) ==
    IF promise = "null"
    THEN [promise |-> "pending", sent |-> TRUE]
    ELSE [promise |-> promise, sent |-> FALSE]

Ensured(c, pc, error) ==
    ensuring' = [ensuring EXCEPT ![c].pc = pc, ![c].error = error]

\* A first operation calls ensureUserIndex: GetIndex is sent.
EnsureCalled ==
    /\ \E c \in EnsureCalls \ DOMAIN ensuring, userSub \in Users :
          /\ ensuring' =
                [d \in DOMAIN ensuring \cup { c } |->
                    IF d # c THEN ensuring[d]
                    ELSE [pc |-> "GetIndex", userSub |-> userSub, error |-> "",
                          fault |-> "none"]]
          /\ issued' = Append(issued,
                              Command("GetIndex", c, IndexNameOf[userSub], "none"))
    /\ UNCHANGED << storeVars, outsideEnsure >>

\* GetIndex answers.  The index is there: the call returns.  A failure with
\* a name other than not-found is thrown on.  Otherwise the dimension is
\* asked for: the probe is sent if no promise is stored.
EnsureLooked ==
    /\ \E c \in DOMAIN ensuring, fault \in IndexFaults :
          LET e == ensuring[c]
              indexName == IndexNameOf[e.userSub]
              probe == probeOnce(embeddingDimensionPromise)
          IN  /\ e.pc = "GetIndex"
              /\ IF fault = "GetIndex"
                 THEN /\ ensuring' = [ensuring EXCEPT ![c].pc = "thrown",
                                         ![c].error = "AccessDenied",
                                         ![c].fault = fault]
                      /\ UNCHANGED << embeddingDimensionPromise, issued >>
                 ELSE IF indexes[indexName].exists /\ fault = "none"
                 THEN /\ Ensured(c, "returned", "")
                      /\ UNCHANGED << embeddingDimensionPromise, issued >>
                 ELSE /\ ensuring' = [ensuring EXCEPT ![c].pc = "Dimension",
                                         ![c].fault = fault]
                      /\ embeddingDimensionPromise' = probe.promise
                      /\ issued' =
                            IF probe.sent
                            THEN Append(issued, Command("InvokeModel", c, "", "none"))
                            ELSE issued
    /\ UNCHANGED << indexes, vectors, clock, calls, lastCall, outsideEnsure >>

\* The embedding of the probe arrives, or fails: the promise settles.
ProbeSettled ==
    /\ embeddingDimensionPromise = "pending"
    /\ embeddingDimensionPromise' \in ProbeDimensions \cup { "rejected" }
    /\ UNCHANGED << indexes, vectors, clock, calls, lastCall, outsideEnsure,
                    ensureVars >>

\* The promise has settled: CreateIndex is sent with its value, or the
\* rejection is thrown on.
EnsureDimensioned ==
    /\ \E c \in DOMAIN ensuring :
          LET e == ensuring[c]
          IN  /\ e.pc = "Dimension"
              /\ embeddingDimensionPromise \notin { "null", "pending" }
              /\ IF embeddingDimensionPromise = "rejected"
                 THEN /\ Ensured(c, "thrown", "EmbeddingError")
                      /\ UNCHANGED issued
                 ELSE /\ Ensured(c, "CreateIndex", "")
                      /\ issued' = Append(issued,
                                      Command("CreateIndex", c,
                                              IndexNameOf[e.userSub],
                                              embeddingDimensionPromise))
    /\ UNCHANGED << storeVars, outsideEnsure >>

\* CreateIndex answers: the index is created, or it is there already and
\* the call throws, or the service fails.
EnsureCreated ==
    /\ \E c \in DOMAIN ensuring, failed \in BOOLEAN :
          LET e == ensuring[c]
              indexName == IndexNameOf[e.userSub]
              sent == CHOOSE i \in DOMAIN issued :
                        issued[i].command = "CreateIndex" /\ issued[i].by = c
          IN  /\ e.pc = "CreateIndex"
              /\ IF indexes[indexName].exists
                 THEN /\ Ensured(c, "thrown", "ConflictException")
                      /\ UNCHANGED indexes
                 ELSE IF failed
                 THEN /\ Ensured(c, "thrown", "ServiceError")
                      /\ UNCHANGED indexes
                 ELSE /\ Ensured(c, "returned", "")
                      /\ indexes' = [indexes EXCEPT ![indexName] =
                                       [exists |-> TRUE,
                                        dimension |-> issued[sent].dimension]]
    /\ UNCHANGED << vectors, embeddingDimensionPromise, clock, calls, lastCall,
                    issued, outsideEnsure >>

EnsureNext ==
    \/ EnsureCalled
    \/ EnsureLooked
    \/ ProbeSettled
    \/ EnsureDimensioned
    \/ EnsureCreated

EnsureSpec == Init /\ [][EnsureNext]_vars

(***************************************************************************)
(* The prompt widget (PromptSuggestion.tsx): every committed render is a   *)
(* state, its effects run before the next event is handled                 *)
(***************************************************************************)
Null == "null"

\* The preview of an edited text keeps this many characters.
WidgetPreviewLen == 159

\* The props the host renders the widget with: index.tsx mounts it with a
\* non-empty prompts list; matches may be absent (empty here).
WidgetP == << "p" >>
WidgetQ == << "q" >>
HostMatches ==
    { << >>,
      << [key |-> "k", metadata |-> [text |-> WidgetP, preview |-> WidgetQ]],
         [key |-> "m", metadata |-> [preview |-> WidgetQ]] >> }
HostProps ==
    { [prompts |-> << WidgetP, WidgetQ >>, matches |-> matches] :
         matches \in HostMatches }

\* What the user types into the textarea.
Drafts == { << " " >>, << "d", " ", " ", "e" >> }

\* The initial value of items and the value the re-sync effect sets: the
\* matches if there are any, else the prompts keyed by their position.
deriveItems(p) ==
    IF Len(p.matches) > 0
    THEN [i \in 1..Len(p.matches) |->
             LET metadata == p.matches[i].metadata
                 preview == IF "preview" \in DOMAIN metadata
                            THEN metadata.preview ELSE << >>
             IN  [key |-> p.matches[i].key,
                  text |-> IF "text" \in DOMAIN metadata THEN metadata.text
                           ELSE preview,
                  preview |-> preview]]
    ELSE [i \in 1..Len(p.prompts) |->
             [key |-> ToString(i - 1), text |-> p.prompts[i], preview |-> << >>]]

itemKeys(items) == { items[i].key : i \in 1..Len(items) }

\* The dependencies of the re-sync effect: the props object is the one it
\* has seen, or a new one.
SyncDeps(w) ==
    [props |-> "seen", editingKey |-> w.editingKey, savingKey |-> w.savingKey]

\* The widget as mounted with the props p.
useState(p) ==
    [items |-> deriveItems(p), editingKey |-> Null, draftText |-> << >>,
     savingKey |-> Null, deletedKeys |-> { }, statusMessage |-> Null]

\* The effect of lines 31-44: items follow the props unless an edit is open
\* or being saved.
syncItems(w, p) ==
    IF w.editingKey # Null \/ w.savingKey # Null THEN w
    ELSE [w EXCEPT !.items = deriveItems(p)]

\* The condition under which the effect of lines 46-51 closes the editor:
\* the edited item is no longer listed.
EditedItemGone(w) ==
    w.editingKey # Null /\ w.editingKey \notin itemKeys(w.items)

closeEdit(w) == [w EXCEPT !.editingKey = Null, !.draftText = << >>]

\* The Escape key handler of lines 53-62.
onKeyDown(w) ==
    IF w.editingKey = Null \/ w.savingKey # Null THEN w ELSE closeEdit(w)

startEdit(w, key) ==
    IF w.savingKey # Null THEN w
    ELSE IF w.editingKey = key THEN closeEdit(w)
    ELSE IF key \notin itemKeys(w.items) THEN w
    ELSE LET item == w.items[Only({ i \in 1..Len(w.items) :
                                     /\ w.items[i].key = key
                                     /\ \A j \in 1..(i - 1) : w.items[j].key # key })]
         IN  [w EXCEPT !.editingKey = key, !.draftText = item.text]

cancelEdit(w) == IF w.savingKey # Null THEN w ELSE closeEdit(w)

\* A tool call the widget sent: its arguments and what its continuation
\* captured from the render it was sent in.
ToolSent(tool, key, text, editingKey) ==
    [tool |-> tool, key |-> key, text |-> text, editingKey |-> editingKey]

\* saveEdit without its guard on savingKey.
saveEditUnguarded(w, key, callTool) ==
    IF ~HasText(w.draftText) THEN [w |-> w, sent |-> { }]
    ELSE IF ~callTool
    THEN [w |-> [w EXCEPT !.statusMessage = "Edit blocked", !.savingKey = Null],
          sent |-> { }]
    ELSE [w |-> [w EXCEPT !.savingKey = key],
          sent |-> { ToolSent("updatePrompt", key, w.draftText, w.editingKey) }]

\* saveEdit up to its await: with the host's callTool the call is sent and
\* savingKey stays set; without it savingKey is set and cleared in one
\* batch and only the status changes.
saveEdit(w, key, callTool) ==
    IF ~HasText(w.draftText) \/ w.savingKey # Null THEN [w |-> w, sent |-> { }]
    ELSE IF ~callTool
    THEN [w |-> [w EXCEPT !.statusMessage = "Edit blocked"], sent |-> { }]
    ELSE [w |-> [w EXCEPT !.savingKey = key],
          sent |-> { ToolSent("updatePrompt", key, w.draftText, w.editingKey) }]

\* handleDelete up to its await.
handleDelete(w, key, ok, callTool) ==
    IF key \in w.deletedKeys \/ ~ok \/ ~callTool THEN [w |-> w, sent |-> { }]
    ELSE [w |-> [w EXCEPT !.deletedKeys = @ \cup { key }],
          sent |-> { ToolSent("deletePrompt", key, << >>, w.editingKey) }]

\* The preview the widget computes for an edited text.
widgetPreview(draftText) ==
    slice0(trim(replaceRuns(draftText, WhiteSpace, " ")), WidgetPreviewLen)
        \o (IF Len(draftText) > WidgetPreviewLen THEN DemoEllipsis ELSE << >>)

\* How the host can answer a tool call: the promise fulfils with the tool's
\* result, fulfils with a result flagged isError, or rejects.
Outcomes == { "success", "isError", "rejected" }

\* The await of callTool returns for every result, flagged or not, and
\* throws for a rejected promise only.
resolved(outcome) == outcome # "rejected"

\* saveEdit after its await.
saveEditSettled(w, call, outcome) ==
    IF resolved(outcome)
    THEN [w EXCEPT
             !.items = [i \in 1..Len(w.items) |->
                           IF w.items[i].key = call.key
                           THEN [w.items[i] EXCEPT !.text = call.text,
                                                   !.preview = widgetPreview(call.text)]
                           ELSE w.items[i]],
             !.editingKey = Null,
             !.draftText = << >>,
             !.statusMessage = "Saved",
             !.savingKey = Null]
    ELSE [w EXCEPT !.statusMessage = "Save failed", !.savingKey = Null]

\* handleDelete after its await: editingKey is the one of the render the
\* delete was started in.
handleDeleteSettled(w, call, outcome) ==
    IF resolved(outcome)
    THEN [w EXCEPT
             !.items = SelectSeq(w.items, LAMBDA item : item.key # call.key),
             !.editingKey = IF call.editingKey = call.key THEN Null ELSE @,
             !.draftText = IF call.editingKey = call.key THEN << >> ELSE @,
             !.statusMessage = "Deleted",
             !.deletedKeys = @ \ { call.key }]
    ELSE [w EXCEPT !.statusMessage = "Delete failed",
                   !.deletedKeys = @ \ { call.key }]

\* The disabled attributes of the buttons of an item.
editDisabled(w, key) == w.savingKey # Null \/ key \in w.deletedKeys
deleteDisabled(w, key) == key \in w.deletedKeys
saveDisabled(w, key) == w.savingKey = key \/ ~HasText(w.draftText)
cancelDisabled(w, key) == w.savingKey = key

NothingSettled == [tool |-> "none"]

\* An effect has yet to run on the committed render.
EffectsPending ==
    /\ widget # << >>
    /\ (synced # SyncDeps(widget) \/ EditedItemGone(widget))

Rendered == widget # << >> /\ ~EffectsPending

\* The render is committed with the state w and the calls `sent` are added
\* to those in flight.
Committed(w, sent) ==
    /\ widget' = w
    /\ inFlight' = inFlight \cup sent
    /\ settled' = NothingSettled
    /\ UNCHANGED << props, synced, outsideWidget >>

\* The host renders the widget for the first time; the re-sync effect runs
\* on mount.
WidgetMounted ==
    /\ widget = << >>
    /\ \E p \in HostProps :
          /\ props' = p
          /\ widget' = useState(p)
          /\ synced' = SyncDeps(useState(p))
    /\ settled' = NothingSettled
    /\ UNCHANGED << inFlight, outsideWidget >>

\* The host renders the widget with a new props object.
HostRendered ==
    /\ Rendered
    /\ \E p \in HostProps : props' = p
    /\ synced' = [synced EXCEPT !.props = "new"]
    /\ settled' = NothingSettled
    /\ UNCHANGED << widget, inFlight, outsideWidget >>

\* The effects whose dependencies changed run on the committed render: both
\* read its state.
EffectsRun ==
    /\ EffectsPending
    /\ \E s \in { IF synced # SyncDeps(widget)
                  THEN syncItems(widget, props) ELSE widget } :
          widget' = IF EditedItemGone(widget)
                    THEN [closeEdit(widget) EXCEPT !.items = s.items]
                    ELSE s
    /\ synced' = SyncDeps(widget)
    /\ settled' = NothingSettled
    /\ UNCHANGED << props, inFlight, outsideWidget >>

EditClicked ==
    /\ Rendered
    /\ \E key \in itemKeys(widget.items) :
          /\ ~editDisabled(widget, key)
          /\ Committed(startEdit(widget, key), { })

CancelClicked ==
    /\ Rendered
    /\ widget.editingKey \in itemKeys(widget.items)
    /\ ~cancelDisabled(widget, widget.editingKey)
    /\ Committed(cancelEdit(widget), { })

EscapePressed ==
    /\ Rendered
    /\ Committed(onKeyDown(widget), { })

\* The user types in the textarea of the edited item.
DraftChanged ==
    /\ Rendered
    /\ widget.editingKey \in itemKeys(widget.items)
    /\ \E text \in Drafts \ { widget.draftText } :
          Committed([widget EXCEPT !.draftText = text], { })

SaveClicked ==
    /\ Rendered
    /\ widget.editingKey \in itemKeys(widget.items)
    /\ ~saveDisabled(widget, widget.editingKey)
    /\ \E callTool \in BOOLEAN :
       \E o \in { saveEdit(widget, widget.editingKey, callTool) } :
          Committed(o.w, o.sent)

DeleteClicked ==
    /\ Rendered
    /\ \E key \in itemKeys(widget.items) :
          /\ ~deleteDisabled(widget, key)
          /\ \E ok \in BOOLEAN, callTool \in BOOLEAN :
             \E o \in { handleDelete(widget, key, ok, callTool) } :
                Committed(o.w, o.sent)

\* The host answers a tool call and its continuation runs.
ToolSettled ==
    /\ Rendered
    /\ \E call \in inFlight, outcome \in Outcomes :
          /\ widget' = IF call.tool = "updatePrompt"
                       THEN saveEditSettled(widget, call, outcome)
                       ELSE handleDeleteSettled(widget, call, outcome)
          /\ inFlight' = inFlight \ { call }
          /\ settled' = [tool |-> call.tool, key |-> call.key, text |-> call.text,
                         outcome |-> outcome, items |-> widget.items]
    /\ UNCHANGED << props, synced, outsideWidget >>

\* A timer set with a status message clears it.
StatusCleared ==
    /\ Rendered
    /\ widget.statusMessage # Null
    /\ Committed([widget EXCEPT !.statusMessage = Null], { })

WidgetNext ==
    \/ WidgetMounted
    \/ HostRendered
    \/ EffectsRun
    \/ EditClicked
    \/ CancelClicked
    \/ EscapePressed
    \/ DraftChanged
    \/ SaveClicked
    \/ DeleteClicked
    \/ ToolSettled
    \/ StatusCleared

WidgetSpec == Init /\ [][WidgetNext]_vars

(***************************************************************************)
(* Properties                                                              *)
(***************************************************************************)
\* The canonical form of a text, as the specification words it: whitespace
\* collapsed, trimmed, lower-cased.
CanonicalText(text) ==
    LET collapsed == replaceRuns(text, WhiteSpace, " ")
        trimmed == stripTrailing(stripLeading(collapsed, { " " }), { " " })
    IN  [i \in 1..Len(trimmed) |-> toLowerCaseChar(trimmed[i])]

\* The key of a canonical form.
CanonicalKey(text) ==
    [prefix |-> "p-", hash |-> [sha256 |-> CanonicalText(text), hexlen |-> 32]]

StoredUnder(indexName, key) == { v \in vectors[indexName] : v.key = key }

\* The vectors a call wrote: every write stamps updatedAt with its time.
WrittenBy(call) ==
    { v \in vectors[call.indexName] : v.metadata.updatedAt = call.now }

Returned(op) == lastCall.op = op /\ ~lastCall.threw

\* C1: no index ever holds two records of one key, and after a save of a
\* text the index of the user holds exactly one record under the key of the
\* canonical form of that text, carrying the vector and the metadata of
\* this save.
C1_UpsertByKeyIdempotent ==
    /\ \A n \in IndexNames : \A v, w \in vectors[n] : v.key = w.key => v = w
    /\ Returned("upsertPrompt") =>
          LET under == StoredUnder(lastCall.indexName, CanonicalKey(lastCall.text))
          IN  /\ Cardinality(under) = 1
              /\ lastCall.saved = << CanonicalKey(lastCall.text) >>
              /\ \A v \in under :
                    /\ v.data = [float32 |-> lastCall.text]
                    /\ v.metadata.text = lastCall.text
                    /\ v.metadata.title = trim(lastCall.extra.title)
                    /\ v.metadata.tags = lastCall.extra.tags
                    /\ v.metadata.source = trim(lastCall.extra.source)
                    /\ v.metadata.updatedAt = lastCall.now

\* A save of "a  b" has replaced a record that its key already had.
C1_Witness ==
    /\ Returned("upsertPrompt")
    /\ lastCall.text = SameSpaced
    /\ lastCall.had
    /\ \E v \in StoredUnder(lastCall.indexName, lastCall.key) :
          v.born < lastCall.now /\ v.metadata.text = SameSpaced

\* C2: no call reads, returns, overwrites or deletes a record that the call
\* of another user wrote.
C2_NoCrossUserVisibility == lastCall.touched \subseteq { lastCall.userSub }

FirstOfItsText(prompts, i) ==
    \A j \in 1..(i - 1) :
        CanonicalText(prompts[j].text) # CanonicalText(prompts[i].text)

\* C3: the records one batch save writes have pairwise distinct keys: one
\* record for the first prompt of every canonical text, in input order, and
\* none for a later prompt of the same canonical text; the batch
\* <<"A b", "a  b", "b">> saves exactly 2 records.
C3_BatchKeysDistinct ==
    Returned("upsertPrompts") =>
        LET prompts == lastCall.prompts
            firsts == { i \in 1..Len(prompts) : FirstOfItsText(prompts, i) }
            written == WrittenBy(lastCall)
            saved == lastCall.saved
        IN  /\ \A v, w \in written : v.key = w.key => v = w
            /\ Cardinality(written) = Cardinality(firsts)
            /\ Len(saved) = Cardinality(firsts)
            /\ \A i, j \in 1..Len(saved) : saved[i] = saved[j] => i = j
            /\ \A i \in firsts :
                  \E v \in written :
                      /\ v.key = CanonicalKey(prompts[i].text)
                      /\ v.metadata.text = prompts[i].text
                      /\ saved[v.metadata.chunkIndex + 1] = v.key
                      /\ v.metadata.chunkIndex + 1 =
                            Cardinality({ j \in firsts : j <= i })
            /\ ([i \in 1..Len(prompts) |-> prompts[i].text]
                    = << Same, SameSpaced, Other >>
                 => Len(saved) = 2)

\* The batch <<"A b", "a  b", "b">> was saved as 2 records.
C3_Witness ==
    /\ Returned("upsertPrompts")
    /\ [i \in 1..Len(lastCall.prompts) |-> lastCall.prompts[i].text]
          = << Same, SameSpaced, Other >>
    /\ Len(lastCall.saved) = 2
    /\ Cardinality(WrittenBy(lastCall)) = 2

\* C4: an update of a key that the index of the user does not hold leaves
\* no record under that key.
C4_UpdateCreatesNoRecord ==
    (lastCall.op = "updatePrompt" /\ ~lastCall.had)
        => StoredUnder(lastCall.indexName, lastCall.key) = { }

\* C5: the createdAt of every stored record is the time of the write that
\* brought its key into existence, and its updatedAt the time of the
\* latest write of the key.
C5_CreatedAtImmutable ==
    /\ \A n \in IndexNames : \A v \in vectors[n] :
          v.metadata.createdAt = v.born
    /\ (Returned("upsertPrompt") \/ Returned("updatePrompt")) =>
          \A v \in StoredUnder(lastCall.indexName, lastCall.key) :
              v.metadata.updatedAt = lastCall.now

Updated == lastCall'.op = "updatePrompt" /\ calls' = calls + 1

\* C6: an update of a key the index holds sets text to the new text and
\* updatedAt to the time of the update, keeps the stored createdAt, and
\* keeps the stored title, tags and source where the caller supplies none.
C6_UpdateKeepsCreatedAt ==
    [][ (Updated /\ ~lastCall'.threw /\ lastCall'.had) =>
          \A old \in StoredUnder(lastCall'.indexName, lastCall'.key) :
          \E new \in vectors'[lastCall'.indexName] :
              /\ new.key = lastCall'.key
              /\ new.metadata.text = lastCall'.text
              /\ new.metadata.updatedAt = lastCall'.now
              /\ new.metadata.createdAt = old.metadata.createdAt
              /\ lastCall'.extra.title = << >>
                    => new.metadata.title = old.metadata.title
              /\ lastCall'.extra.tags = << >>
                    => new.metadata.tags = old.metadata.tags
              /\ lastCall'.extra.source = << >>
                    => new.metadata.source = old.metadata.source
      ]_vars

\* An update without labels has changed the text of a labelled record that
\* was created earlier.
C6_Witness ==
    /\ Returned("updatePrompt")
    /\ lastCall.had
    /\ lastCall.extra = NoExtra
    /\ \E v \in StoredUnder(lastCall.indexName, lastCall.key) :
          /\ v.metadata.createdAt < v.metadata.updatedAt
          /\ v.metadata.text = lastCall.text
          /\ v.metadata.title = << "T" >>
          /\ v.metadata.tags = << "x" >>

\* C7: an update for a user whose index does not exist fails, with "User
\* index does not exist" unless the lookup of the index itself failed; it
\* sends nothing but the lookup (no GetVectors, no InvokeModel, no
\* PutVectors) and changes nothing in the store.
C7_UpdateWithoutIndexFails ==
    [][ (Updated /\ ~indexes[lastCall'.indexName].exists) =>
          /\ lastCall'.threw
          /\ lastCall'.error \in { "User index does not exist", "AccessDenied",
                                   "UnnamedError" }
          /\ lastCall'.sent = << "GetIndex" >>
          /\ UNCHANGED << indexes, vectors, embeddingDimensionPromise >>
      ]_vars

\* An update was refused because the user has no index.
C7_Witness ==
    /\ lastCall.op = "updatePrompt"
    /\ ~lastCall.existed
    /\ lastCall.threw
    /\ lastCall.error = "User index does not exist"

\* C8: a delete that returns reports deleted = "the index existed"; with no
\* index it sends no DeleteVectors and fails only if the lookup of the index
\* failed; with an index it reports deleted = TRUE also for an absent key.
C8_DeletedIsIndexExistence ==
    lastCall.op = "deletePrompt" =>
        /\ ~lastCall.threw => lastCall.deleted = lastCall.existed
        /\ ~lastCall.existed =>
              /\ lastCall.sent = << "GetIndex" >>
              /\ ~lastCall.deleted
              /\ lastCall.threw => lastCall.error \in { "AccessDenied", "UnnamedError" }
        /\ (lastCall.existed /\ ~lastCall.threw) =>
              lastCall.sent = << "GetIndex", "DeleteVectors" >>

\* A delete of a key the existing index did not hold reported deleted.
C8_Witness ==
    /\ Returned("deletePrompt")
    /\ lastCall.existed
    /\ ~lastCall.had
    /\ lastCall.deleted

\* C9: an update or a delete sends no CreateIndex and leaves the set of
\* indexes as it was; a step that changes the set of indexes is a save, a
\* batch save, a query or a list.
C9_OnlyEnsuringCallsCreate ==
    [][ /\ (calls' = calls + 1 /\ lastCall'.op \in { "updatePrompt", "deletePrompt" })
            => /\ indexes' = indexes
               /\ \A i \in 1..Len(lastCall'.sent) : lastCall'.sent[i] # "CreateIndex"
        /\ indexes' # indexes
            => lastCall'.op \in { "upsertPrompt", "upsertPrompts",
                                   "queryPromptRecords", "listPromptRecords" }
      ]_vars

\* An update and a delete found no index and left none behind.
C9_Witness ==
    /\ lastCall.op \in { "updatePrompt", "deletePrompt" }
    /\ ~lastCall.existed
    /\ ~indexes[lastCall.indexName].exists
    /\ \E n \in IndexNames : indexes[n].exists

\* C10: a batch save of whitespace-only texts saves no record and sends no
\* PutVectors.
C10_BlankBatchSavesNothing ==
    ( /\ lastCall.op = "upsertPrompts"
      /\ lastCall.prompts # << >>
      /\ \A i \in 1..Len(lastCall.prompts) :
            \A k \in 1..Len(lastCall.prompts[i].text) :
                lastCall.prompts[i].text[k] \in WhiteSpace )
        => /\ lastCall.saved = << >>
           /\ \A i \in 1..Len(lastCall.sent) : lastCall.sent[i] # "PutVectors"
           /\ WrittenBy(lastCall) = { }

IsBlank(text) == \A k \in 1..Len(text) : text[k] \in WhiteSpace

Sent(call, command) == { i \in 1..Len(call.sent) : call.sent[i] = command }

\* C11: a save or an update called on the store with an empty or
\* whitespace-only text is rejected; no PutVectors is sent and no record is
\* written for it, and where the index existed (no dimension probe is due)
\* no InvokeModel is sent either.
C11_BlankTextRejected ==
    ( /\ lastCall.op \in { "upsertPrompt", "updatePrompt" }
      /\ IsBlank(lastCall.text) )
        => /\ lastCall.threw
           /\ Sent(lastCall, "PutVectors") = { }
           /\ WrittenBy(lastCall) = { }
           /\ lastCall.existed => Sent(lastCall, "InvokeModel") = { }

\* A tools/call request was handled in this step.
Handled(tools) == calls' = calls + 1 /\ toolCall'.tool \in tools

Authorized(call) ==
    call.authContext.authorized /\ call.authContext.subject # << >>

NoText(arguments) == \A t \in arguments.text : IsBlank(t)

NoKey(arguments) == \A k \in arguments.key : k \in { EmptyKey, BlankKey }

\* The required inputs of a tool that a request lacks.
LacksInput(call) ==
    \/ call.tool = "savePrompt" /\ NoText(call.arguments)
    \/ call.tool = "deletePrompt" /\ NoKey(call.arguments)
    \/ call.tool = "updatePrompt"
          /\ (NoKey(call.arguments) \/ NoText(call.arguments))

\* C12: in an authorized session a savePrompt without text, an updatePrompt
\* without key or text and a deletePrompt without key (absent or blank) are
\* answered with an error result and a message, without any call of the
\* store: nothing is sent to the vector or embedding service and the store
\* is left as it was.
C12_MissingInputNoExternalCall ==
    [][ ( /\ Handled({ "savePrompt", "updatePrompt", "deletePrompt" })
          /\ Authorized(toolCall')
          /\ LacksInput(toolCall') )
        => /\ toolCall'.result.isError
           /\ toolCall'.result.text # ""
           /\ toolCall'.result.status # "success"
           /\ lastCall'.op = "none"
           /\ lastCall'.sent = << >>
           /\ UNCHANGED << indexes, vectors, embeddingDimensionPromise >>
      ]_vars

\* An update with a blank key and a text was refused while the index of the
\* user held a record.
C12_Witness ==
    /\ toolCall.tool = "updatePrompt"
    /\ Authorized(toolCall)
    /\ toolCall.arguments.key = { BlankKey }
    /\ toolCall.arguments.text = { Other }
    /\ toolCall.result.isError
    /\ lastCall = NoCall
    /\ vectors[IndexNameOf[toolCall.authContext.subject]] # { }

\* C13: a tool call whose call of the store failed answers with an error
\* result that carries a message, and does not report status "success".
C13_StoreFailureIsReported ==
    (toolCall.tool # "none" /\ lastCall.threw)
        => /\ toolCall.result.isError
           /\ toolCall.result.text # ""
           /\ toolCall.result.status # "success"

\* C14: a text and a text that differs from it only in runs of whitespace,
\* in whitespace at its ends or in letter case have the same key, and the
\* key of a text is the key of its canonical form.
C14_KeyInvariantUnderSpacingAndCase ==
    /\ CanonicalText(original) = CanonicalText(variant)
    /\ applied.fn = "promptKeyFromText" =>
          /\ applied.values[1] = applied.values[2]
          /\ applied.values[1] = CanonicalKey(original)
          /\ applied.values[2] = CanonicalKey(variant)

\* The key of "A b" and the key of "a \nB" were computed.
C14_Witness ==
    /\ applied.fn = "promptKeyFromText"
    /\ original = << "A", " ", "b" >>
    /\ variant = << "a", " ", "\n", "B" >>
    /\ applied.values[1] = applied.values[2]

\* Whitespace collapsed and trimmed, letter case kept.
NormalizedText(text) ==
    LET collapsed == replaceRuns(text, WhiteSpace, " ")
    IN  stripTrailing(stripLeading(collapsed, { " " }), { " " })

EndsWith(s, suffix) ==
    /\ Len(s) >= Len(suffix)
    /\ SubSeq(s, Len(s) - Len(suffix) + 1, Len(s)) = suffix

\* C15: the preview of a text has at most 160 characters; it is the
\* whitespace-normalized text where that has at most 160 characters, and
\* ends with the ellipsis marker otherwise.
C15_PreviewAtMost160 ==
    applied.fn = "previewText" =>
        LET preview == applied.values[1]
            normalized == NormalizedText(original)
        IN  /\ Len(preview) <= 160
            /\ Len(normalized) > 160 => EndsWith(preview, Ellipsis)
            /\ Len(normalized) <= 160 => preview = normalized

\* A query that reached QueryVectors.
Queried ==
    lastCall.op = "queryPromptRecords" /\ Sent(lastCall, "QueryVectors") # { }

\* The topK of the caller, or the default of 4.
RequestedTopK ==
    IF lastCall.opts = { } THEN 4 ELSE CHOOSE n \in lastCall.opts : TRUE

HasUsableText(indexName, key) ==
    \E v \in StoredUnder(indexName, key) : ~IsBlank(v.metadata.text)

\* C16 as stated: a query asks the service for min(requested topK, 200)
\* neighbours and returns at most the requested count of records, each with
\* non-blank text.
C16_AsksMinOfRequestedAnd200 ==
    Queried =>
        /\ lastCall.topK = (IF RequestedTopK < 200 THEN RequestedTopK ELSE 200)
        /\ Cardinality(lastCall.returned) <= RequestedTopK
        /\ \A k \in lastCall.returned : HasUsableText(lastCall.indexName, k)

\* C16, amended: a query asks the service for max(1, min(requested topK,
\* 200)) neighbours, 4 being requested where the caller names no topK, and
\* returns at most as many records as it asked for, each with non-blank
\* text; the records of the index without usable text are not returned.
C16_AsksClampedTopK ==
    Queried =>
        LET asked == IF RequestedTopK < 1 THEN 1
                     ELSE IF RequestedTopK > 200 THEN 200 ELSE RequestedTopK
        IN  /\ lastCall.topK = asked
            /\ Cardinality(lastCall.returned) <= asked
            /\ \A k \in lastCall.returned : HasUsableText(lastCall.indexName, k)
            /\ \A v \in vectors[lastCall.indexName] :
                  IsBlank(v.metadata.text) => v.key \notin lastCall.returned

\* A query for 1 neighbour returned 1 record of an index that holds two
\* with text, and a query for 201 neighbours asked for 200 and returned the
\* one record with text of an index that holds another without.
C16_Witness ==
    /\ Returned("queryPromptRecords")
    /\ \/ /\ lastCall.opts = { 1 }
          /\ lastCall.topK = 1
          /\ Cardinality(lastCall.returned) = 1
          /\ Cardinality({ v \in vectors[lastCall.indexName] :
                              ~IsBlank(v.metadata.text) }) = 2
       \/ /\ lastCall.opts = { 201 }
          /\ lastCall.topK = 200
          /\ Cardinality(lastCall.returned) = 1
          /\ \E v \in vectors[lastCall.indexName] : IsBlank(v.metadata.text)

\* C17: the matches a fetch with a query returns lie within the cutoff
\* min(0.80, best + 0.08) of the best (smallest) distance among them, in
\* hundredths: of matches at 0.10, 0.15 and 0.50 only the first two are
\* returned.
C17_RelativeDistanceCutoff ==
    ( /\ toolCall.tool \in { "fetchPrompt", "fetchRelevantPrompts" }
      /\ Returned("queryPromptRecords") )
        => LET matches == toolCall.result.matches
               best == CHOOSE d \in { m.distance : m \in matches } :
                           \A m \in matches : d <= m.distance
               cutoff == IF best + 8 < 80 THEN best + 8 ELSE 80
           IN  \A m \in matches : m.distance <= cutoff

\* What listPrompts returns of a list of prompts, for every query and limit.
Listed(prompts) ==
    [q \in DemoQueries, limit \in DemoLimits |-> listPrompts(prompts, q, limit)]

DemoWrites == { "savePrompt", "updatePrompt", "deletePrompt" }

\* C18: in the demo server a savePrompt, updatePrompt or deletePrompt of one
\* session never changes what listPrompts returns or what promptInsights
\* counts in another session, whatever the interleaving of the sessions'
\* tool calls.
C18_DemoStoragePerSession ==
    [][(demoClock' # demoClock /\ demoCall'.tool \in DemoWrites) =>
        \A other \in demoSessions \ { demoCall'.sessionId } :
            /\ Listed(storesBySession'[getStore(other)].prompts)
                 = Listed(storesBySession[getStore(other)].prompts)
            /\ promptInsights(storesBySession'[getStore(other)].prompts)
                 = promptInsights(storesBySession[getStore(other)].prompts)]_vars

\* A session has deleted one of its prompts while another connected session
\* holds a prompt of its own.
C18_Witness ==
    /\ demoCall.tool = "deletePrompt"
    /\ demoCall.result.deleted
    /\ \E other \in demoSessions \ { demoCall.sessionId } :
          storesBySession[getStore(other)].prompts # << >>

\* The map holds the sessions whose transport is connecting or open.
RegistryExact ==
    DOMAIN sessions =
        { id \in DOMAIN transports : transports[id] \in { "connecting", "open" } }

\* A POST answered 400 or 404 was dispatched to no transport.
RefusedNotDispatched ==
    \A n \in DOMAIN posts :
        posts[n].status \in { BadRequest, NotFound } => n \notin dispatched

\* The answer to the POST that arrives in a step.
PostAnswered ==
    Len(posts') = Len(posts) + 1 =>
        LET post == posts'[Len(posts')]
        IN  /\ post.sessionId = NoSessionId => post.status = BadRequest
            /\ (post.sessionId # NoSessionId /\ post.sessionId \notin DOMAIN sessions)
                  => post.status = NotFound
            /\ (TransportIs(post.sessionId, "closed") \/ TransportIs(post.sessionId, "failed"))
                  => post.status = NotFound
            /\ post.status \in { BadRequest, NotFound } => dispatched' = dispatched

\* C19: the session map holds a session exactly from its SSE connect until
\* its transport closes or its connect fails; a POST without sessionId is
\* answered 400 and a POST whose sessionId is not in the map 404, neither is
\* dispatched to a server instance, and every POST that arrives after the
\* transport of its session has closed is answered 404.
C19_SessionRegistry ==
    /\ []RegistryExact
    /\ []RefusedNotDispatched
    /\ [][PostAnswered]_vars

\* A POST of a session was dispatched, the transport closed and a later POST
\* with the same sessionId was answered 404.
C19_Witness ==
    \E n \in dispatched, later \in DOMAIN posts :
        /\ n < later
        /\ posts[later].sessionId = posts[n].sessionId
        /\ posts[later].status = NotFound
        /\ TransportIs(posts[n].sessionId, "closed")

\* The metadata stored under the key of the concurrent updates.
RaceStored == existingMetadataOf(GetVectors(vectors[IndexNameOf[RaceUser]], { RaceKey }))

\* C20: updatePrompt's read-modify-write is not transactional.  The record
\* stored after a PutVectors is the one its call built from the metadata it
\* had fetched, whatever was written in between (last write wins); so two
\* concurrent calls on one key, one naming a title and the other tags, can
\* leave a record that lacks the field one of them wrote.
C20_LastWriteWins ==
    [][\A c \in DOMAIN updating :
          (updating[c].pc = "PutVectors" /\ updating'[c].pc = "returned") =>
              RaceStored' = updating[c].metadata]_vars

\* Both calls have returned, one wrote a title and the other tags, and the
\* stored record lacks the title or the tags.
C20_Witness ==
    /\ DOMAIN updating = UpdateCalls
    /\ \A c \in UpdateCalls : updating[c].pc = "returned"
    /\ \E c, d \in UpdateCalls :
          /\ updating[c].extra = TitleOnly
          /\ updating[d].extra = TagsOnly
          /\ \/ RaceStored.title # TitleOnly.title
             \/ RaceStored.tags # TagsOnly.tags

\* The commands of a name that were sent.
Issued(name) == { i \in DOMAIN issued : issued[i].command = name }

\* C21: the embedding-dimension probe converges on one stored result without
\* a lock: whatever the interleaving of concurrent first uses of one store
\* instance, the probe is embedded at most once and every CreateIndex of the
\* process carries the same dimension.
C21_ProbeOnce ==
    /\ Cardinality(Issued("InvokeModel")) <= 1
    /\ \A i, j \in Issued("CreateIndex") :
          issued[i].dimension = issued[j].dimension

\* Two calls found no index before the probe was sent, and both sent a
\* CreateIndex after the one probe.
C21_Witness ==
    /\ Len(issued) >= 5
    /\ issued[1].command = "GetIndex"
    /\ issued[2].command = "GetIndex"
    /\ Cardinality(Issued("InvokeModel")) = 1
    /\ Cardinality(Issued("CreateIndex")) = 2

\* C22: ensureUserIndex sends CreateIndex only when the existence check
\* failed with a not-found error; after any other failure of GetIndex, one
\* that carries no name included, the call throws and sends no CreateIndex.
C22_CreateOnlyWhenNotFound ==
    \A c \in DOMAIN ensuring :
        ensuring[c].fault \in { "GetIndex", "GetIndexUnnamed" } =>
            /\ ensuring[c].pc = "thrown"
            /\ \A i \in Issued("CreateIndex") : issued[i].by # c

\* C23: a batch save is all-or-nothing with respect to records: when the
\* embedding of a surviving item fails, upsertPrompts throws, sends no
\* PutVectors and leaves the records of every index as they were.
C23_BatchAllOrNothing ==
    [][(/\ calls' = calls + 1
        /\ lastCall'.op = "upsertPrompts"
        /\ lastCall'.error = "EmbeddingError")
          => /\ lastCall'.threw
             /\ Sent(lastCall', "PutVectors") = { }
             /\ lastCall'.saved = << >>
             /\ vectors' = vectors]_vars

\* A batch save on an index that holds records failed at the embedding of
\* its second item, after the first was embedded.
C23_Witness ==
    /\ lastCall.op = "upsertPrompts"
    /\ lastCall.error = "EmbeddingError"
    /\ lastCall.existed
    /\ vectors[lastCall.indexName] # { }
    /\ Cardinality(Sent(lastCall, "InvokeModel")) = 2

\* The latest updatedAt among prompts, -1 (null) when there are none.
LatestUpdatedAt(prompts) ==
    IF prompts = << >> THEN -1
    ELSE CHOOSE t \in { prompts[i].updatedAt : i \in 1..Len(prompts) } :
            \A i \in 1..Len(prompts) : prompts[i].updatedAt <= t

\* C24: in the demo server, after any savePrompt, updatePrompt and
\* deletePrompt calls of a session, promptInsights returns the number of
\* prompts stored for the session as count and the latest updatedAt among
\* them as lastUpdatedAt (null when there are none).
C24_InsightsMatchStore ==
    \A sessionId \in demoSessions :
        LET prompts == storesBySession[getStore(sessionId)].prompts
        IN  /\ promptInsights(prompts).count = Len(prompts)
            /\ promptInsights(prompts).lastUpdatedAt = LatestUpdatedAt(prompts)

\* C25: no tool call reads or writes the vector store unless the auth
\* context of the session is authorized and carries a subject: whatever the
\* tool name of the request, a name that is no tool of the server included,
\* an unauthorized context is answered with an authentication error and no
\* operation of the store.
C25_NoStoreUseUnlessAuthorized ==
    (toolCall.tool # "none" /\ ~Authorized(toolCall))
        => /\ toolCall.result.isError
           /\ toolCall.result.wwwAuthenticate # ""
           /\ lastCall = NoCall

\* C26: each tool call is authorized by the Authorization header of the POST
\* that carried it: whatever the interleaving of concurrent POSTs of one
\* session, the message of a POST without a valid token is never run with
\* the authorized context or the subject that another POST set.
C26_CallRunsWithItsOwnHeader ==
    \A n \in dispatched :
        ~posts[n].header.authorized =>
            /\ ~posts[n].ran.authorized
            /\ posts[n].ran.subject = posts[n].header.subject

\* The calls whose GetIndex answered without a failure of the service.
Faultless == { c \in DOMAIN ensuring : ensuring[c].fault = "none" }

\* C27: lazy creation of the index is safe under concurrency: whatever the
\* interleaving of concurrent first operations of one user, CreateIndex is
\* sent at most once for the index of the user and no operation fails
\* because a concurrent operation created the index between its existence
\* check and its create.
C27_CreateIndexOnce ==
    /\ \A i, j \in Issued("CreateIndex") :
          (/\ issued[i].by \in Faultless
           /\ issued[j].by \in Faultless
           /\ issued[i].indexName = issued[j].indexName) => i = j
    /\ \A c \in Faultless : ensuring[c].error # "ConflictException"

\* The tool calls in flight for one tool.
InFlightOf(tool) == { call \in inFlight : call.tool = tool }

\* C28: the widget never has an updatePrompt call and a deletePrompt call
\* for the same key in flight at the same time.
C28_NoSaveAndDeleteOfOneKey ==
    \A save \in InFlightOf("updatePrompt"), delete \in InFlightOf("deletePrompt") :
        save.key # delete.key

\* The status the widget shows for a failed tool call.
FailureStatus == { "Save failed", "Delete failed" }

\* The item of key `key` has the text `text` in the list `items`.
ItemHasText(items, key, text) ==
    \E i \in 1..Len(items) : items[i].key = key /\ items[i].text = text

\* C29: the widget changes its list only when the server performed the
\* change: a tool call that settles with a result flagged isError, or with
\* a rejection, leaves items as they were and shows a failure status.
C29_ListFollowsServer ==
    settled # << >> /\ settled.tool # "none" /\ settled.outcome # "success"
        => /\ widget.items = settled.items
           /\ widget.statusMessage \in FailureStatus

\* The keys the user can name: those listed now or by any props.
WidgetKeys ==
    itemKeys(widget.items) \cup UNION { itemKeys(deriveItems(p)) : p \in HostProps }

\* While savingKey is set the edit handlers, the Escape key, another save
\* and the re-sync effect leave the widget as it is and send nothing.
SaveUndisturbed ==
    widget.savingKey # Null =>
        /\ \A key \in WidgetKeys : startEdit(widget, key) = widget
        /\ cancelEdit(widget) = widget
        /\ onKeyDown(widget) = widget
        /\ \A key \in WidgetKeys, callTool \in BOOLEAN :
              saveEdit(widget, key, callTool) = [w |-> widget, sent |-> { }]
        /\ \A p \in HostProps : syncItems(widget, p) = widget

====
